---- MODULE Spec2Model ----
(***************************************************************************)
(* A model of python-fleet (fleet.v1): the request engine of Client        *)
(* (_single_request, _request), the Unit object (option mutation,          *)
(* desired state) and the unit-file text codec (Unit._set_options_from_file *)
(* and Unit.__str__).                                                       *)
(*                                                                          *)
(* Python values are encoded as follows.  None, False and an absent dict    *)
(* key are the strings NoneV, FalseV and Absent, which no token, section,   *)
(* name or value of the model equals.  A text is a sequence of one          *)
(* character strings, so that strip, startswith, split and splitlines are   *)
(* computed character by character.                                         *)
(***************************************************************************)
EXTENDS Integers, Sequences, FiniteSets, TLC

VARIABLES
    script,     \* the outcomes the transport will produce, one per HTTP request
    sent,       \* the HTTP requests issued so far, in order
    overrun,    \* a request was issued after the script's last outcome
    mode,       \* which entry point of Client the caller used
    callerKw,   \* the nextPageToken the caller put in **kwargs (or Absent)
    gen,        \* the generator object returned by Client._request
    yielded,    \* the pages the generator has handed to its consumer
    call,       \* the outcome of the last call that returned or raised
    unit,       \* a Unit object: _client, and _data's name, desiredState, options
    before,     \* the Unit as it was when the last Unit method was entered
    ucall,      \* the last Unit method called, its arguments and what it did
    text,       \* the unit-file text given to Unit(from_string=...)
    stage,      \* how far the codec run has come
    parsed,     \* result of parsing text
    output,     \* str(unit) of the parsed unit
    reparsed,   \* result of parsing output
    arg,        \* the argument of a call of _split_hostport or _endpoint_to_target
    target,     \* what that call returned or raised
    ctor,       \* the arguments of Client(...) and what the network will answer
    client,     \* the Client that resulted, or the exception raised instead
    tunnel,     \* the SSH session's side: forward calls made and channels opened
    inflight,   \* the requests in flight on the client, each in its own thread
    unix,       \* a UnixConnectionWithTimeout, and the sockets of its process
    over,       \* an HTTPOverSSHTunnel, and what was done to build it
    api,        \* the last call of a unit method of Client, and what it did
    dispatch,   \* a method path given to _single_request and the calls it led to
    server,     \* a server that answers a list request by its page cursor
    listed      \* the generator of a list_* method: items yielded, items of the page left

reqVars == <<script, sent, overrun, mode, callerKw, gen, yielded, call>>
unitVars == <<unit, before, ucall>>
codecVars == <<text, stage, parsed, output, reparsed>>
netVars == <<arg, target, ctor, client, tunnel, inflight, unix, over, api, dispatch, server, listed>>
vars == <<script, sent, overrun, mode, callerKw, gen, yielded, call,
          unit, before, ucall, text, stage, parsed, output, reparsed,
          arg, target, ctor, client, tunnel, inflight, unix, over, api, dispatch, server, listed>>

\* ---------------------------------------------------------------- bounds

MaxScript == 3
MaxOptions == 2
MaxLines == 4
MaxGiven == 3
MaxListed == 3
MaxRequests == 2
MaxConnects == 3
MaxTokens == 3
MaxPages == 4

\* ------------------------------------------------------- Python values

NoneV == "<None>"
FalseV == "<False>"
Absent == "<absent>"

\* bool(x) for the values a page token can take: False, None and '' are falsy
Truthy(x) == x \notin {NoneV, FalseV, ""}

\* ------------------------------------------------- transport and server

ServerTokens == {"", "foo", "bar"}
CallerTokens == {Absent, "caller"}

\* A 2xx response: a JSON object, with a nextPageToken key or without one.
PageBody(t) == [fmt |-> "page", token |-> t, code |-> 0, message |-> "", desiredState |-> NoneV]
\* The wire error envelope {"error": {"code": c, "message": m}}.
EnvelopeBody(c, m) ==
    [fmt |-> "envelope", token |-> Absent, code |-> c, message |-> m, desiredState |-> NoneV]
\* A body that is not JSON at all, and a JSON object without an "error" key.
NotJsonBody ==
    [fmt |-> "notjson", token |-> Absent, code |-> 0, message |-> "", desiredState |-> NoneV]
NoErrorKeyBody ==
    [fmt |-> "noerrorkey", token |-> Absent, code |-> 0, message |-> "", desiredState |-> NoneV]
\* The JSON of a unit, as Units.Get returns it.
UnitBody(ds) ==
    [fmt |-> "unit", token |-> Absent, code |-> 0, message |-> "", desiredState |-> ds]

Response(s, b) == [kind |-> "response", status |-> s, body |-> b, err |-> NoneV]
TransportFailure(e) == [kind |-> "transport", status |-> 0, body |-> NotJsonBody, err |-> e]

PageOutcomes == {Response(200, PageBody(t)) : t \in ServerTokens \cup {Absent}}
ErrorBodies == {EnvelopeBody(404, "unit does not exist"), NotJsonBody, NoErrorKeyBody}
ErrorOutcomes == {Response(s, b) : s \in {404, 500}, b \in ErrorBodies}
TransportOutcomes == {TransportFailure(e) : e \in {"socket.error", "socket.gaierror"}}
Outcomes == PageOutcomes \cup ErrorOutcomes \cup TransportOutcomes

Scripts == UNION {[1..n -> Outcomes] : n \in 1..MaxScript}

\* json.loads(exc.content.decode('utf-8')): a ValueError unless the body is JSON
JsonLoads(body) ==
    IF body.fmt = "notjson" THEN [ok |-> FALSE, value |-> body]
    ELSE [ok |-> TRUE, value |-> body]

\* HttpRequest.execute(http=...): the decoded body of a 2xx response, HttpError
\* (carrying status and content) for any other response, and the transport's
\* own exception when no response arrived.
Execute(outcome) ==
    IF outcome.kind = "transport"
    THEN [exc |-> outcome.err, status |-> 0, content |-> NotJsonBody]
    ELSE IF outcome.status >= 300
    THEN [exc |-> "HttpError", status |-> outcome.status, content |-> outcome.body]
    ELSE [exc |-> NoneV, status |-> outcome.status, content |-> outcome.body]

NoHttpError == [status |-> 0, content |-> NotJsonBody]

Returned(attempts, value) ==
    [attempts |-> attempts, exc |-> NoneV, code |-> 0, message |-> "",
     http_error |-> NoHttpError, value |-> value]
Raised(attempts, exc, code, message, http_error) ==
    [attempts |-> attempts, exc |-> exc, code |-> code, message |-> message,
     http_error |-> http_error, value |-> NotJsonBody]

\* except HttpError as exc: decode the envelope and raise APIError
HandleHttpError(e) ==
    LET decoded == JsonLoads(e.content)
        http_error == [status |-> e.status, content |-> e.content]
    IN  IF ~decoded.ok THEN Raised(1, "ValueError", 0, "", NoHttpError)
        ELSE IF decoded.value.fmt # "envelope" THEN Raised(1, "KeyError", 0, "", NoHttpError)
        ELSE Raised(1, "APIError", decoded.value.code, decoded.value.message, http_error)

\* A variant that retries once when the transport fails.
SingleRequestRetrying(remaining) ==
    LET e == Execute(Head(remaining))
    IN  IF e.exc = NoneV THEN Returned(1, e.content)
        ELSE IF e.exc = "HttpError" THEN HandleHttpError(e)
        ELSE IF Len(remaining) > 1
             THEN LET e2 == Execute(remaining[2])
                  IN  IF e2.exc = NoneV THEN Returned(2, e2.content)
                      ELSE Raised(2, e2.exc, 0, "", NoHttpError)
             ELSE Raised(1, e.exc, 0, "", NoHttpError)

\* Client._single_request, from the call of execute on: `remaining` are the
\* outcomes the transport has left, of which one execute consumes the first.
SingleRequest(remaining) ==
    LET e == Execute(Head(remaining))
    IN  IF e.exc = NoneV THEN Returned(1, e.content)
        ELSE IF e.exc = "HttpError" THEN HandleHttpError(e)
        ELSE Raised(1, e.exc, 0, "", NoHttpError)

\* The request as it goes on the wire: the method and the page cursor of **kwargs.
Request(method, kw) == [method |-> method, nextPageToken |-> kw]

Remaining == SubSeq(script, Len(sent) + 1, Len(script))

NoCall == [op |-> "none", attempts |-> 0, exc |-> NoneV, code |-> 0, message |-> "",
           http_error |-> NoHttpError, value |-> NotJsonBody,
           outcome |-> TransportFailure(NoneV), nsent |-> 0]

\* What the caller observes of a call: what it returned or raised, beside the
\* outcome the transport produced for it and the number of requests sent before it.
CallOf(op, r, outcome, nsent) ==
    [op |-> op, attempts |-> r.attempts, exc |-> r.exc, code |-> r.code,
     message |-> r.message, http_error |-> r.http_error, value |-> r.value,
     outcome |-> outcome, nsent |-> nsent]

\* ------------------------------------------------------ Client._request

NewGen == [pc |-> "none", next_page_token |-> FalseV, kwargs |-> Absent]

\* while next_page_token is not None, with a variant that tests truthiness
LoopContinuesIfTruthy(next_page_token) == next_page_token \notin {NoneV, ""}
LoopContinues(next_page_token) == next_page_token # NoneV

\* if next_page_token: kwargs['nextPageToken'] = next_page_token
InjectToken(kwargs, next_page_token) ==
    IF Truthy(next_page_token) THEN next_page_token ELSE kwargs

\* response.get('nextPageToken', None)
GetNextPageToken(response) ==
    IF response.token = Absent THEN NoneV ELSE response.token

\* The caller calls a method of Client on a fresh client.
\* Client._request(method, **kwargs): a generator is created, no code of it runs.
CallRequest(kw) ==
    /\ mode = "idle"
    /\ mode' = "paginated"
    /\ callerKw' = kw
    /\ gen' = [pc |-> "created", next_page_token |-> FalseV, kwargs |-> kw]
    /\ UNCHANGED <<script, sent, overrun, yielded, call>>

\* next() on the generator: run to the next yield, to the end or to an exception.
GenNext ==
    /\ mode = "paginated"
    /\ gen.pc \in {"created", "suspended"}
    /\ IF ~LoopContinues(gen.next_page_token)
       THEN /\ gen' = [gen EXCEPT !.pc = "done"]
            /\ UNCHANGED <<sent, overrun, yielded, call>>
       ELSE LET kw == InjectToken(gen.kwargs, gen.next_page_token)
                req == Request("List", kw)
            IN  IF Remaining = <<>>
                THEN \* the request goes out; its answer lies beyond the script
                     /\ sent' = Append(sent, req)
                     /\ overrun' = TRUE
                     /\ gen' = [gen EXCEPT !.pc = "waiting", !.kwargs = kw]
                     /\ UNCHANGED <<yielded, call>>
                ELSE LET r == SingleRequest(Remaining)
                     IN  /\ sent' = sent \o [i \in 1..r.attempts |-> req]
                         /\ call' = CallOf("_request", r, Head(Remaining), Len(sent))
                         /\ overrun' = overrun
                         /\ IF r.exc # NoneV
                            THEN /\ gen' = [gen EXCEPT !.pc = "failed", !.kwargs = kw]
                                 /\ UNCHANGED yielded
                            ELSE /\ gen' = [pc |-> "suspended",
                                            next_page_token |-> GetNextPageToken(r.value),
                                            kwargs |-> kw]
                                 /\ yielded' = Append(yielded, r.value)
    /\ UNCHANGED <<script, mode, callerKw>>

\* Client._single_request(method, **kwargs) called directly.
CallSingleRequest(kw) ==
    /\ mode \in {"idle", "single"}
    /\ Remaining # <<>>
    /\ LET r == SingleRequest(Remaining)
       IN  /\ sent' = sent \o [i \in 1..r.attempts |-> Request("Get", kw)]
           /\ call' = CallOf("_single_request", r, Head(Remaining), Len(sent))
    /\ mode' = "single"
    /\ callerKw' = kw
    /\ UNCHANGED <<script, overrun, gen, yielded>>

\* ------------------------------------------- a server addressed by cursor

\* The cursors a list request can carry, and a server: the nextPageToken of the
\* page it returns for each cursor (Absent: the page has no such key).
Cursors == ServerTokens \cup CallerTokens
Servers == [Cursors -> ServerTokens \cup {Absent}]
NoServer == [c \in Cursors |-> Absent]

\* page.get('units', []) of the page at a cursor: the key may be missing
ServerItems(cursor) ==
    CASE cursor = Absent -> <<"unit-1", "unit-2">>
      [] cursor = "" -> <<"unit-3">>
      [] cursor = "foo" -> <<>>
      [] cursor = "bar" -> <<"unit-4", "unit-5">>
      [] OTHER -> <<"unit-6">>

\* One resumption of the generator of _request against the server `srv`: the
\* generator after it, the requests it sent and the pages it yielded. The
\* variant asks for the page after the one it yields before yielding.
ServedStepPrefetching(g, srv) ==
    IF ~LoopContinues(g.next_page_token)
    THEN [gen |-> [g EXCEPT !.pc = "done"], requests |-> <<>>, pages |-> <<>>]
    ELSE LET kw == InjectToken(g.kwargs, g.next_page_token)
             r == SingleRequest(<<Response(200, PageBody(srv[kw]))>>)
             token == GetNextPageToken(r.value)
         IN  [gen |-> [pc |-> "suspended", next_page_token |-> token, kwargs |-> kw],
              requests |-> IF LoopContinues(token)
                           THEN <<Request("List", kw), Request("List", InjectToken(kw, token))>>
                           ELSE <<Request("List", kw)>>,
              pages |-> <<r.value>>]
ServedStep(g, srv) ==
    IF ~LoopContinues(g.next_page_token)
    THEN [gen |-> [g EXCEPT !.pc = "done"], requests |-> <<>>, pages |-> <<>>]
    ELSE LET kw == InjectToken(g.kwargs, g.next_page_token)
             r == SingleRequest(<<Response(200, PageBody(srv[kw]))>>)
         IN  [gen |-> [pc |-> "suspended", next_page_token |-> GetNextPageToken(r.value),
                       kwargs |-> kw],
              requests |-> <<Request("List", kw)>>,
              pages |-> <<r.value>>]

\* next() on the generator of _request, the server answering by cursor
GenNextServed ==
    /\ mode = "paginated"
    /\ gen.pc \in {"created", "suspended"}
    /\ Len(sent) < MaxPages
    /\ LET s == ServedStep(gen, server)
       IN  /\ gen' = s.gen
           /\ sent' = sent \o s.requests
           /\ yielded' = yielded \o s.pages
    /\ UNCHANGED <<script, overrun, mode, callerKw, call, server, listed>>

NoListing == [pc |-> "none", pending |-> <<>>, items |-> <<>>]

\* client.list_units() (list_unit_states, list_machines): generators are
\* created, no code of them runs.
CallList ==
    /\ mode = "idle"
    /\ mode' = "listing"
    /\ callerKw' = Absent
    /\ gen' = [pc |-> "created", next_page_token |-> FalseV, kwargs |-> Absent]
    /\ listed' = [pc |-> "created", pending |-> <<>>, items |-> <<>>]
    /\ UNCHANGED <<script, sent, overrun, yielded, call, server>>

\* for page in self._request(...): for unit in page.get('units', []): yield ...
\* resumed with `pending` items of the current page left and room for `room`
\* more requests: runs to the next yield or to the end.
RECURSIVE ListAdvance(_, _, _, _)
ListAdvance(g, pending, srv, room) ==
    IF pending # <<>>
    THEN [pc |-> "suspended", gen |-> g, pending |-> Tail(pending), item |-> <<Head(pending)>>,
          requests |-> <<>>, pages |-> <<>>]
    ELSE IF room <= 0
    THEN [pc |-> "running", gen |-> g, pending |-> <<>>, item |-> <<>>,
          requests |-> <<>>, pages |-> <<>>]
    ELSE LET s == ServedStep(g, srv)
         IN  IF s.gen.pc = "done"
             THEN [pc |-> "done", gen |-> s.gen, pending |-> <<>>, item |-> <<>>,
                   requests |-> <<>>, pages |-> <<>>]
             ELSE LET rest == ListAdvance(s.gen, ServerItems(s.requests[1].nextPageToken),
                                          srv, room - Len(s.requests))
                  IN  [rest EXCEPT !.requests = s.requests \o @, !.pages = s.pages \o @]

\* next() on the generator of a list_* method
ListNext ==
    /\ mode = "listing"
    /\ listed.pc \in {"created", "suspended"}
    /\ LET a == ListAdvance(gen, listed.pending, server, MaxPages - Len(sent))
       IN  /\ gen' = a.gen
           /\ sent' = sent \o a.requests
           /\ yielded' = yielded \o a.pages
           /\ overrun' = (a.pc = "running")
           /\ listed' = [pc |-> a.pc, pending |-> a.pending, items |-> listed.items \o a.item]
    /\ UNCHANGED <<script, mode, callerKw, call, server>>

\* ------------------------------------------------------------------ Unit

\* Unit._STATES
States == {"inactive", "loaded", "launched"}

Sections == {"Service", "Unit"}
Names == {"After", "ExecStart"}
Values == {"1", "2"}

Option(section, name, value) == [section |-> section, name |-> name, value |-> value]
Options == {Option(s, n, v) : s \in Sections, n \in Names, v \in Values}
OptionLists == UNION {[1..n -> Options] : n \in 0..MaxOptions}

\* A unit built by Unit(): no name, the default desired state, no options.
IdleUnit == [client |-> FALSE, hasName |-> FALSE, desiredState |-> "launched", options |-> <<>>]

\* Unit.__init__: desired_state is stored as given (any string), options as
\* given; data from the server carries a name and one of the server's states.
ConstructedUnits ==
    {[client |-> c, hasName |-> FALSE, desiredState |-> ds, options |-> o] :
        c \in BOOLEAN, ds \in States \cup {"bogus"}, o \in OptionLists}
    \cup
    {[client |-> c, hasName |-> TRUE, desiredState |-> ds, options |-> o] :
        c \in BOOLEAN, ds \in States, o \in OptionLists}

\* Unit._is_live, with a variant that looks at the name alone
IsLiveByNameOnly(u) == u.hasName
IsLive(u) == u.hasName /\ u.client

UnitResult(u, exc, ret, requests) == [unit |-> u, exc |-> exc, ret |-> ret, requests |-> requests]

\* Unit.add_option
AddOption(u, section, name, value) ==
    IF IsLive(u)
    THEN UnitResult(u, "RuntimeError", NoneV, <<>>)
    ELSE UnitResult([u EXCEPT !.options = Append(@, Option(section, name, value))],
                    NoneV, TRUE, <<>>)

\* list.remove(x): drop the first element equal to x
RECURSIVE ListRemove(_, _)
ListRemove(list, x) ==
    IF list = <<>> THEN <<>>
    ELSE IF Head(list) = x THEN Tail(list)
    ELSE <<Head(list)>> \o ListRemove(Tail(list), x)

\* A variant of the loop that walks the list it removes from, so that the
\* element after a removed one is passed over
RECURSIVE RemoveLoopInPlace(_, _, _, _, _, _)
RemoveLoopInPlace(copy, options, removed, section, name, value) ==
    IF copy = <<>> THEN <<options, removed>>
    ELSE LET option == Head(copy)
             hit == /\ option.section = section
                    /\ option.name = name
                    /\ (value = NoneV \/ option.value = value)
         IN  IF hit
             THEN RemoveLoopInPlace(IF Len(copy) >= 2 THEN Tail(Tail(copy)) ELSE <<>>,
                                    ListRemove(options, option), removed + 1,
                                    section, name, value)
             ELSE RemoveLoopInPlace(Tail(copy), options, removed, section, name, value)

\* The loop of Unit.remove_option over a copy of the options: <<options, removed>>
RECURSIVE RemoveLoop(_, _, _, _, _, _)
RemoveLoop(copy, options, removed, section, name, value) ==
    IF copy = <<>> THEN <<options, removed>>
    ELSE LET option == Head(copy)
             hit == /\ option.section = section
                    /\ option.name = name
                    /\ (value = NoneV \/ option.value = value)
         IN  IF hit
             THEN RemoveLoop(Tail(copy), ListRemove(options, option), removed + 1,
                             section, name, value)
             ELSE RemoveLoop(Tail(copy), options, removed, section, name, value)

\* Unit.remove_option
RemoveOption(u, section, name, value) ==
    IF IsLive(u)
    THEN UnitResult(u, "RuntimeError", NoneV, <<>>)
    ELSE LET r == RemoveLoop(u.options, u.options, 0, section, name, value)
         IN  UnitResult([u EXCEPT !.options = r[1]], NoneV, r[2] > 0, <<>>)

\* What can come back for a request about a unit: the API's error envelope, a
\* transport failure, 204 No Content for Units.Set, the unit's JSON for Units.Get.
UnitFailures ==
    {Response(404, EnvelopeBody(404, "unit does not exist")), TransportFailure("socket.error")}
SetOutcomes == {Response(204, PageBody(Absent))} \cup UnitFailures
GetOutcomes == {Response(200, UnitBody(ds)) : ds \in States} \cup UnitFailures

\* The outcomes the transport holds ready for one set_desired_state: none when
\* the unit is not bound to a server, else one for Units.Set and, when that one
\* is a success, one for Units.Get.
RoundTrips(u) ==
    IF ~(u.hasName /\ u.client) THEN {<<>>}
    ELSE {<<s>> : s \in SetOutcomes \cap UnitFailures}
         \cup {<<s, g>> : s \in SetOutcomes \ UnitFailures, g \in GetOutcomes}

\* Client.set_unit_desired_state(name, desired_state): Units.Set, then
\* get_unit(name), i.e. Units.Get and Unit(client=self, data=response).
ClientSetUnitDesiredState(desired_state, outcomes) ==
    IF desired_state \notin States
    THEN [exc |-> "ValueError", requests |-> <<>>, desiredState |-> NoneV]
    ELSE LET set == SingleRequest(outcomes)
         IN  IF set.exc # NoneV
             THEN [exc |-> set.exc, requests |-> <<"Units.Set">>, desiredState |-> NoneV]
             ELSE LET get == SingleRequest(SubSeq(outcomes, set.attempts + 1, Len(outcomes)))
                  IN  IF get.exc # NoneV
                      THEN [exc |-> get.exc, requests |-> <<"Units.Set", "Units.Get">>,
                            desiredState |-> NoneV]
                      ELSE [exc |-> NoneV, requests |-> <<"Units.Set", "Units.Get">>,
                            desiredState |-> get.value.desiredState]

\* Unit.set_desired_state
SetDesiredState(u, state, outcomes) ==
    IF state \notin States
    THEN UnitResult(u, "ValueError", NoneV, <<>>)
    ELSE LET local == [u EXCEPT !.desiredState = state]
         IN  IF IsLive(local)
             THEN LET r == ClientSetUnitDesiredState(local.desiredState, outcomes)
                  IN  IF r.exc # NoneV
                      THEN UnitResult(local, r.exc, NoneV, r.requests)
                      ELSE UnitResult([local EXCEPT !.desiredState = r.desiredState],
                                      NoneV, r.desiredState, r.requests)
             ELSE UnitResult(local, NoneV, state, <<>>)

NoUnitCall == [op |-> "none", section |-> NoneV, name |-> NoneV, value |-> NoneV,
               state |-> NoneV, exc |-> NoneV, ret |-> NoneV, requests |-> <<>>]

UnitCall(op, section, name, value, state, r) ==
    [op |-> op, section |-> section, name |-> name, value |-> value, state |-> state,
     exc |-> r.exc, ret |-> r.ret, requests |-> r.requests]

CallAddOption(section, name, value) ==
    /\ Len(unit.options) < MaxOptions
    /\ LET r == AddOption(unit, section, name, value)
       IN  /\ unit' = r.unit
           /\ ucall' = UnitCall("add_option", section, name, value, NoneV, r)
    /\ before' = unit

CallRemoveOption(section, name, value) ==
    /\ LET r == RemoveOption(unit, section, name, value)
       IN  /\ unit' = r.unit
           /\ ucall' = UnitCall("remove_option", section, name, value, NoneV, r)
    /\ before' = unit

CallSetDesiredState(state, outcomes) ==
    /\ LET r == SetDesiredState(unit, state, outcomes)
       IN  /\ unit' = r.unit
           /\ ucall' = UnitCall("set_desired_state", NoneV, NoneV, NoneV, state, r)
    /\ before' = unit

\* What can come back for Units.Delete, and for the Units.Set of create_unit
DeleteOutcomes == {Response(204, PageBody(Absent))} \cup UnitFailures
CreateOutcomes == {Response(201, PageBody(Absent))} \cup UnitFailures

\* Client.destroy_unit(name): Units.Delete, then True
ClientDestroyUnit(outcomes) ==
    LET r == SingleRequest(outcomes)
    IN  [exc |-> r.exc, requests |-> <<"Units.Delete">>,
         ret |-> IF r.exc = NoneV THEN TRUE ELSE NoneV]

\* Unit.destroy, with a variant that asks the server whatever the unit is
DestroyUnchecked(u, outcomes) ==
    LET r == ClientDestroyUnit(outcomes)
    IN  UnitResult(u, r.exc, r.ret, r.requests)
Destroy(u, outcomes) ==
    IF ~IsLive(u)
    THEN UnitResult(u, "RuntimeError", NoneV, <<>>)
    ELSE LET r == ClientDestroyUnit(outcomes)
         IN  UnitResult(u, r.exc, r.ret, r.requests)

CallDestroy(outcomes) ==
    /\ LET r == Destroy(unit, outcomes)
       IN  /\ unit' = r.unit
           /\ ucall' = UnitCall("destroy", NoneV, NoneV, NoneV, NoneV, r)
    /\ before' = unit

\* The unit argument of a Client method: a name, or a Unit, whose name is read
\* from its data (KeyError when it has none)
UnitNames == {"test.service", "other.service"}
ByName(name) == [isUnit |-> FALSE, hasName |-> TRUE, name |-> name]
ByUnit(u) ==
    [isUnit |-> TRUE, hasName |-> u.hasName,
     name |-> IF u.hasName THEN "test.service" ELSE ""]

\* Unit(client=self, data=response): the Unit a Client method returns
ReturnedUnit(name, desiredState) ==
    [returned |-> TRUE, client |-> TRUE, name |-> name, desiredState |-> desiredState]
NoUnitReturned == [returned |-> FALSE, client |-> FALSE, name |-> "", desiredState |-> NoneV]

ApiRequest(method, unitName) == [method |-> method, unitName |-> unitName]
ApiResult(exc, requests, ret) == [exc |-> exc, requests |-> requests, ret |-> ret]

\* The outcomes the transport holds ready for a Set followed by a Get
SetThenGet(setOutcomes) ==
    {<<s>> : s \in setOutcomes \cap UnitFailures}
        \cup {<<s, g>> : s \in setOutcomes \ UnitFailures, g \in GetOutcomes}

\* Client.get_unit(name)
GetUnit(name, outcomes) ==
    LET get == SingleRequest(outcomes)
    IN  ApiResult(get.exc, <<ApiRequest("Units.Get", name)>>,
                  IF get.exc # NoneV THEN NoUnitReturned
                  ELSE ReturnedUnit(name, get.value.desiredState))

\* Client.create_unit(name, unit), with a variant that fetches the unit first
CreateUnitGetFirst(name, outcomes) ==
    LET get == GetUnit(name, outcomes)
    IN  ApiResult(get.exc, get.requests \o <<ApiRequest("Units.Set", name)>>, get.ret)
CreateUnit(name, outcomes) ==
    LET set == SingleRequest(outcomes)
    IN  IF set.exc # NoneV
        THEN ApiResult(set.exc, <<ApiRequest("Units.Set", name)>>, NoUnitReturned)
        ELSE LET get == GetUnit(name, SubSeq(outcomes, set.attempts + 1, Len(outcomes)))
             IN  ApiResult(get.exc, <<ApiRequest("Units.Set", name)>> \o get.requests, get.ret)

\* Client.set_unit_desired_state(unit, desired_state) with its unit argument
ClientSetUnitDesiredStateOf(unitArg, desired_state, outcomes) ==
    IF desired_state \notin States
    THEN ApiResult(ClientSetUnitDesiredState(desired_state, outcomes).exc, <<>>, NoUnitReturned)
    ELSE IF unitArg.isUnit /\ ~unitArg.hasName
    THEN ApiResult("KeyError", <<>>, NoUnitReturned)
    ELSE LET r == ClientSetUnitDesiredState(desired_state, outcomes)
         IN  ApiResult(r.exc,
                       [i \in 1..Len(r.requests) |-> ApiRequest(r.requests[i], unitArg.name)],
                       IF r.exc # NoneV THEN NoUnitReturned
                       ELSE ReturnedUnit(unitArg.name, r.desiredState))

NoApiCall ==
    [op |-> "none", unit |-> ByName(""), state |-> NoneV, outcomes |-> <<>>,
     exc |-> NoneV, requests |-> <<>>, ret |-> NoUnitReturned]
ApiCall(op, unitArg, state, outcomes, r) ==
    [op |-> op, unit |-> unitArg, state |-> state, outcomes |-> outcomes,
     exc |-> r.exc, requests |-> r.requests, ret |-> r.ret]

\* ---------------------------------------------- method dispatch of _single_request

\* Method paths are strings of characters; the names of the fleet API and a
\* name that is the tail of another one.
Chars(t) ==
    CASE t = "Units" -> <<"U", "n", "i", "t", "s">>
      [] t = "Machines" -> <<"M", "a", "c", "h", "i", "n", "e", "s">>
      [] t = "UnitState" -> <<"U", "n", "i", "t", "S", "t", "a", "t", "e">>
      [] t = "State" -> <<"S", "t", "a", "t", "e">>
      [] t = "List" -> <<"L", "i", "s", "t">>
      [] t = "Get" -> <<"G", "e", "t">>
MethodNames == {Chars(t) : t \in {"Units", "Machines", "UnitState", "State", "List", "Get"}}

\* '.'.join(tokens)
RECURSIVE JoinDots(_)
JoinDots(tokens) ==
    IF tokens = <<>> THEN <<>>
    ELSE IF Len(tokens) = 1 THEN tokens[1]
    ELSE tokens[1] \o <<".">> \o JoinDots(Tail(tokens))

\* method.split('.')
RECURSIVE SplitDots(_, _)
SplitDots(str, item) ==
    IF str = <<>> THEN <<item>>
    ELSE IF Head(str) = "." THEN <<item>> \o SplitDots(Tail(str), <<>>)
    ELSE SplitDots(Tail(str), Append(item, Head(str)))

\* method.endswith(item)
MethodEndsWith(str, item) ==
    /\ Len(item) <= Len(str)
    /\ SubSeq(str, Len(str) - Len(item) + 1, Len(str)) = item

MethodPaths(most) ==
    {JoinDots(tokens) : tokens \in UNION {[1..n -> MethodNames] : n \in 1..most}}

\* The paths Client itself passes to _single_request and _request
ApiPaths ==
    {JoinDots(<<Chars(p[1]), Chars(p[2])>>) :
        p \in {<<"Machines", "List">>, <<"Units", "List">>, <<"Units", "Get">>,
               <<"UnitState", "List">>}}

\* The loop over method.split('.'): each item is looked up and called, with the
\* caller's arguments or with none; a variant tells the last item by position.
DispatchByPosition(method) ==
    LET items == SplitDots(method, <<>>)
    IN  [i \in 1..Len(items) |-> [item |-> items[i], withArgs |-> i = Len(items)]]
Dispatch(method) ==
    LET items == SplitDots(method, <<>>)
    IN  [i \in 1..Len(items) |-> [item |-> items[i], withArgs |-> MethodEndsWith(method, items[i])]]

NoDispatch == [method |-> <<>>, called |-> FALSE, trace |-> <<>>]

\* self._single_request(method, *args, **kwargs) up to the call of execute
CallDispatch(method) ==
    /\ dispatch' = [method |-> method, called |-> TRUE, trace |-> Dispatch(method)]
    /\ UNCHANGED <<reqVars, unitVars, codecVars, arg, target, ctor, client, tunnel, inflight,
                   unix, over, api, server, listed>>


\* client.set_unit_desired_state(unit, desired_state)
CallClientSetUnitDesiredState(unitArg, state, outcomes) ==
    /\ api' = ApiCall("set_unit_desired_state", unitArg, state, outcomes,
                      ClientSetUnitDesiredStateOf(unitArg, state, outcomes))
    /\ UNCHANGED <<unit, before, ucall>>

\* client.create_unit(name, unit)
CallCreateUnit(name, outcomes) ==
    /\ api' = ApiCall("create_unit", ByName(name), unit.desiredState, outcomes,
                      CreateUnit(name, outcomes))
    /\ UNCHANGED <<unit, before, ucall>>

\* The units the Client methods are tried on
ApiUnits ==
    {[client |-> c, hasName |-> n, desiredState |-> ds, options |-> o] :
        c \in BOOLEAN, n \in BOOLEAN, ds \in States,
        o \in {<<Option("Service", "ExecStart", "1")>>}}

\* What a caller may pass as a state
GivenStates == States \cup {"invalid-state"}


\* ------------------------------------------------------- unit-file codec

\* str.strip(): leading and trailing whitespace removed
IsSpace(c) == c \in {" ", "\t"}

RECURSIVE LStrip(_)
LStrip(s) == IF s # <<>> /\ IsSpace(Head(s)) THEN LStrip(Tail(s)) ELSE s

RECURSIVE RStrip(_)
RStrip(s) ==
    IF s # <<>> /\ IsSpace(s[Len(s)]) THEN RStrip(SubSeq(s, 1, Len(s) - 1)) ELSE s

Strip(s) == RStrip(LStrip(s))

\* line.strip('[]'): every leading and trailing bracket removed
RECURSIVE StripBrackets(_)
StripBrackets(s) ==
    IF s # <<>> /\ Head(s) \in {"[", "]"} THEN StripBrackets(Tail(s))
    ELSE IF s # <<>> /\ s[Len(s)] \in {"[", "]"} THEN StripBrackets(SubSeq(s, 1, Len(s) - 1))
    ELSE s

StartsWith(s, c) == s # <<>> /\ Head(s) = c
EndsWith(s, c) == s # <<>> /\ s[Len(s)] = c

\* str.splitlines() of a text whose only line break is "\n": a break ends a
\* line, and a last line without a break counts when it is not empty.
RECURSIVE SplitLinesFrom(_, _)
SplitLinesFrom(s, current) ==
    IF s = <<>> THEN (IF current = <<>> THEN <<>> ELSE <<current>>)
    ELSE IF Head(s) = "\n" THEN <<current>> \o SplitLinesFrom(Tail(s), <<>>)
    ELSE SplitLinesFrom(Tail(s), Append(current, Head(s)))

SplitLines(s) == SplitLinesFrom(s, <<>>)

\* The positions of c in s
Positions(s, c) == {i \in 1..Len(s) : s[i] = c}
Min(S) == CHOOSE x \in S : \A y \in S : x <= y
Max(S) == CHOOSE x \in S : \A y \in S : x >= y

\* name, value = line.split('=', 1): unpacking fails (ValueError) without '=';
\* the variant splits at the last '=' as rsplit would.
SplitAtLastEquals(line) ==
    IF Positions(line, "=") = {} THEN [ok |-> FALSE, name |-> <<>>, value |-> <<>>]
    ELSE LET at == Max(Positions(line, "="))
         IN  [ok |-> TRUE, name |-> SubSeq(line, 1, at - 1),
              value |-> SubSeq(line, at + 1, Len(line))]
SplitNameValue(line) ==
    IF Positions(line, "=") = {} THEN [ok |-> FALSE, name |-> <<>>, value |-> <<>>]
    ELSE LET at == Min(Positions(line, "="))
         IN  [ok |-> TRUE, name |-> SubSeq(line, 1, at - 1),
              value |-> SubSeq(line, at + 1, Len(line))]

\* section = None before the first header; `not section` is true of None and ''
NoSection == [isNone |-> TRUE, name |-> <<>>]
SectionNamed(name) == [isNone |-> FALSE, name |-> name]
NotSection(section) == section.isNone \/ section.name = <<>>

\* line.startswith('[') and line.endswith(']'), and the section it names
IsSectionHeader(line) == StartsWith(line, "[") /\ EndsWith(line, "]")
HeaderSection(line) == StripBrackets(line)

ParseOk(options) == [ok |-> TRUE, options |-> options, line |-> 0, error |-> "none"]
ParseError(error, line_number) ==
    [ok |-> FALSE, options |-> <<>>, line |-> line_number, error |-> error]
NoResult == [ok |-> FALSE, options |-> <<>>, line |-> 0, error |-> "not run"]

\* The for loop of Unit._set_options_from_file over the lines still to read.
RECURSIVE ParseLoop(_, _, _, _)
ParseLoop(lines, line_number, section, options) ==
    IF lines = <<>> THEN ParseOk(options)
    ELSE LET n == line_number + 1
             line == Strip(Head(lines))
         IN  IF line = <<>> \/ StartsWith(line, "#")
             THEN ParseLoop(Tail(lines), n, section, options)
             ELSE IF IsSectionHeader(line)
             THEN ParseLoop(Tail(lines), n, SectionNamed(HeaderSection(line)), options)
             ELSE IF NotSection(section)
             THEN ParseError("outside of a section", n)
             ELSE LET nv == SplitNameValue(line)
                  IN  IF ~nv.ok THEN ParseError("malformed line", n)
                      ELSE ParseLoop(Tail(lines), n, section,
                                     Append(options, [section |-> section.name,
                                                      name |-> nv.name,
                                                      value |-> nv.value]))

\* Unit._set_options_from_file(StringIO(text)): the options, or the ValueError
SetOptionsFromFile(s) == ParseLoop(SplitLines(s), 0, NoSection, <<>>)

\* u"\n".join(output)
RECURSIVE JoinLines(_)
JoinLines(lines) ==
    IF lines = <<>> THEN <<>>
    ELSE IF Len(lines) = 1 THEN Head(lines)
    ELSE Head(lines) \o <<"\n">> \o JoinLines(Tail(lines))

\* u'[{0}]'.format(section)
HeaderLine(section) == <<"[">> \o section \o <<"]">>

\* u'{0}={1}'.format(option['name'], option['value']); the variant pads the '='
OptionLineSpaced(option) == option.name \o <<" ", "=", " ">> \o option.value
OptionLine(option) == option.name \o <<"=">> \o option.value

\* The options of one section, in their order in the list
RECURSIVE OptionsIn(_, _)
OptionsIn(options, section) ==
    IF options = <<>> THEN <<>>
    ELSE IF Head(options).section = section
    THEN <<Head(options)>> \o OptionsIn(Tail(options), section)
    ELSE OptionsIn(Tail(options), section)

\* set([x['section'] for x in options]), and the orders a set can be iterated in
SectionSet(options) == {options[i].section : i \in 1..Len(options)}
IterationOrders(S) ==
    {f \in [1..Cardinality(S) -> S] : \A i, j \in 1..Cardinality(S) : f[i] = f[j] => i = j}

\* A variant of the loop that writes the header again before every option
RECURSIVE StrLinesUngrouped(_, _)
StrLinesUngrouped(options, order) ==
    IF options = <<>> THEN <<>>
    ELSE <<HeaderLine(Head(options).section), OptionLine(Head(options))>>
             \o StrLinesUngrouped(Tail(options), order)

\* The lines Unit.__str__ collects when the set of sections iterates as `order`
RECURSIVE StrLines(_, _)
StrLines(options, order) ==
    IF order = <<>> THEN <<>>
    ELSE LET mine == OptionsIn(options, Head(order))
         IN  <<HeaderLine(Head(order))>> \o [i \in 1..Len(mine) |-> OptionLine(mine[i])]
                 \o StrLines(options, Tail(order))

\* Unit.__str__
Str(options, order) == JoinLines(StrLines(options, order))

\* The lines the texts of the model are made of.
LineVocabulary ==
    { <<" ">>,                                 \* blank once stripped
      <<"#", "c">>,                            \* a comment
      <<"[", "S", "]">>,                       \* section headers
      <<"[", "T", "]">>,
      <<"[", "]">>,                            \* a header with nothing in the brackets
      <<" ", "a", "=", "b", "=", "c">>,        \* name=value with a second '='
      <<"k", "=", "v", "\\">>,                 \* name=value ending in a backslash
      <<"w", "\\">>,                           \* no '=', ending in a backslash
      <<" ", "z">> }                           \* no '='

\* The unit texts of up to `most` lines, the last with or without its line break.
Texts(most) ==
    {JoinLines(ls) \o nl :
        ls \in UNION {[1..n -> LineVocabulary] : n \in 0..most},
        nl \in {<<>>, <<"\n">>}}

\* The option lists a caller hands to Unit(options=...)
GivenOptions ==
    {[section |-> s, name |-> <<"k">>, value |-> v] :
        s \in {<<"S">>, <<"T">>}, v \in {<<"v">>, <<>>}}
GivenOptionLists == UNION {[1..n -> GivenOptions] : n \in 0..MaxGiven}

\* Unit(options=options): the list becomes the unit's options as it is
FromOptions(options) ==
    /\ stage = "text"
    /\ text = <<>>
    /\ unit' = [unit EXCEPT !.options = options]
    /\ stage' = "built"
    /\ UNCHANGED <<before, ucall, text, parsed, output, reparsed>>

\* str(unit) of the unit built from options
StrOfUnit(order) ==
    /\ stage = "built"
    /\ output' = Str(unit.options, order)
    /\ stage' = "str"
    /\ UNCHANGED <<unit, before, ucall, text, parsed, reparsed>>

\* Unit(from_string=text)
FromString ==
    /\ stage = "text"
    /\ parsed' = SetOptionsFromFile(text)
    /\ stage' = "parsed"
    /\ UNCHANGED <<text, output, reparsed>>

\* str(unit) of the unit just parsed
ToStr(order) ==
    /\ stage = "parsed"
    /\ parsed.ok
    /\ output' = Str(parsed.options, order)
    /\ stage' = "printed"
    /\ UNCHANGED <<text, parsed, reparsed>>

\* Unit(from_string=str(unit))
FromOutput ==
    /\ stage = "printed"
    /\ reparsed' = SetOptionsFromFile(output)
    /\ stage' = "reparsed"
    /\ UNCHANGED <<text, parsed, output>>

\* ----------------------------------------------- endpoints and host:port

\* The port range of _split_hostport and the default ports of its callers
MinPort == 1
MaxPort == 65535
HttpsPort == 443
HttpPort == 80
SshPort == 22

Digits == <<"0", "1", "2", "3", "4", "5", "6", "7", "8", "9">>
IsDigit(c) == \E d \in 1..10 : Digits[d] = c
DigitValue(c) == (CHOOSE d \in 1..10 : Digits[d] = c) - 1

RECURSIVE DecimalValue(_)
DecimalValue(s) ==
    IF s = <<>> THEN 0
    ELSE 10 * DecimalValue(SubSeq(s, 1, Len(s) - 1)) + DigitValue(s[Len(s)])

\* A port as _split_hostport holds it: the text after the colon, or the number
\* that was given as default_port
PortText(s) == [isText |-> TRUE, text |-> s, number |-> 0]
PortNumber(n) == [isText |-> FALSE, text |-> <<>>, number |-> n]

\* int(port): a number is itself; a text may carry whitespace around it and a
\* sign before its digits, and anything else is a ValueError
IntOf(port) ==
    IF ~port.isText THEN [ok |-> TRUE, value |-> port.number]
    ELSE LET t == Strip(port.text)
             signed == t # <<>> /\ Head(t) \in {"+", "-"}
             digits == IF signed THEN Tail(t) ELSE t
         IN  IF digits = <<>> \/ \E i \in 1..Len(digits) : ~IsDigit(digits[i])
             THEN [ok |-> FALSE, value |-> 0]
             ELSE [ok |-> TRUE,
                   value |-> IF signed /\ Head(t) = "-" THEN 0 - DecimalValue(digits)
                             ELSE DecimalValue(digits)]

\* The 3 item tuple (host, port, path), None being an item that is not there,
\* or the exception raised instead
Target(host, port) ==
    [exc |-> NoneV, hasHost |-> TRUE, host |-> host, hasPort |-> TRUE, port |-> port,
     hasPath |-> FALSE, path |-> <<>>]
PathTarget(path) ==
    [exc |-> NoneV, hasHost |-> FALSE, host |-> <<>>, hasPort |-> FALSE, port |-> 0,
     hasPath |-> TRUE, path |-> path]
TargetError(exc) ==
    [exc |-> exc, hasHost |-> FALSE, host |-> <<>>, hasPort |-> FALSE, port |-> 0,
     hasPath |-> FALSE, path |-> <<>>]
NoTarget == TargetError("not called")

NoDefault == [given |-> FALSE, port |-> 0]
DefaultPort(n) == [given |-> TRUE, port |-> n]

\* The second half of _split_hostport: port = int(port) and the range check;
\* the variant forgets the upper end of the range
CheckPortNoUpperEnd(host, port) ==
    LET n == IntOf(port)
    IN  IF ~n.ok \/ n.value < MinPort THEN TargetError("ValueError")
        ELSE Target(host, n.value)
CheckPort(host, port) ==
    LET n == IntOf(port)
    IN  IF ~n.ok \/ n.value < MinPort \/ n.value > MaxPort THEN TargetError("ValueError")
        ELSE Target(host, n.value)

\* Client._split_hostport: hostport.split(':', 1) has two items when there is
\* a colon, else the unpacking fails and the default port stands in
SplitHostport(hostport, default_port) ==
    LET colons == Positions(hostport, ":")
    IN  IF colons = {}
        THEN IF ~default_port.given THEN TargetError("ValueError")
             ELSE CheckPort(hostport, PortNumber(default_port.port))
        ELSE LET at == Min(colons)
             IN  CheckPort(SubSeq(hostport, 1, at - 1),
                           PortText(SubSeq(hostport, at + 1, Len(hostport))))

\* urlparse.urlparse(endpoint), items 0 and 1: the scheme is what stands before
\* the first colon, the network location what stands between "//" and the
\* next "/", "?" or "#".  (Schemes are written in lower case here.)
IsSchemeChar(c) == c \notin {":", "/", "?", "#", "%", " "}
UrlParse(url) ==
    LET colons == Positions(url, ":")
        at == IF colons = {} THEN 0 ELSE Min(colons)
        hasScheme == at > 1 /\ \A i \in 1..(at - 1) : IsSchemeChar(url[i])
        rest == IF hasScheme THEN SubSeq(url, at + 1, Len(url)) ELSE url
        hasNetloc == Len(rest) >= 2 /\ rest[1] = "/" /\ rest[2] = "/"
        after == SubSeq(rest, 3, Len(rest))
        stops == {i \in 1..Len(after) : after[i] \in {"/", "?", "#"}}
    IN  [scheme |-> IF hasScheme THEN SubSeq(url, 1, at - 1) ELSE <<>>,
         netloc |-> IF ~hasNetloc THEN <<>>
                    ELSE IF stops = {} THEN after
                    ELSE SubSeq(after, 1, Min(stops) - 1)]

\* sub in s
Contains(s, sub) ==
    \E i \in 1..(Len(s) - Len(sub) + 1) : SubSeq(s, i, i + Len(sub) - 1) = sub

\* unquote(hostport): each %2F (or %2f) becomes "/", the one escape the texts
\* of the model use; the variant returns the text as it is
UnquoteNothing(s) == s
RECURSIVE Unquote(_)
Unquote(s) ==
    IF s = <<>> THEN <<>>
    ELSE IF Len(s) >= 3 /\ s[1] = "%" /\ s[2] = "2" /\ s[3] \in {"F", "f"}
    THEN <<"/">> \o Unquote(SubSeq(s, 4, Len(s)))
    ELSE <<Head(s)>> \o Unquote(Tail(s))

Http == <<"h", "t", "t", "p">>
Https == <<"h", "t", "t", "p", "s">>
Unix == <<"u", "n", "i", "x">>
HttpUnix == Http \o <<"+">> \o Unix
Ssh == <<"s", "s", "h", "+">>

\* if scheme == 'https': 443, else: 80; the variant knows port 80 only
SchemePortAlwaysHttp(scheme) == HttpPort
SchemePort(scheme) == IF scheme = Https THEN HttpsPort ELSE HttpPort

\* Client._endpoint_to_target
EndpointToTarget(endpoint) ==
    LET url == UrlParse(endpoint)
        scheme == url.scheme
        hostport == url.netloc
    IN  IF Contains(scheme, Unix) THEN PathTarget(Unquote(hostport))
        ELSE SplitHostport(hostport, DefaultPort(SchemePort(scheme)))

\* The schemes of an endpoint: those a caller writes and those the client
\* makes of them by putting 'ssh+' in front when it tunnels
Schemes == {Http, Https, HttpUnix, Ssh \o Http, Ssh \o HttpUnix}

Foo == <<"f", "o", "o">>
SocketPath == <<"%", "2", "F", "t", "m", "p", "%", "2", "f", "s">>

\* What follows the host in a "host[:port]" text
PortSuffixes ==
    { <<>>,
      <<":", "2", "2">>,
      <<":", "9", "9", "9">>,
      <<":", "0">>,
      <<":", "6", "5", "5", "3", "5">>,
      <<":", "6", "5", "5", "3", "6">>,
      <<":", "9", "9", "9", "9", "9">>,
      <<":", "b", "a", "r">>,
      <<":">>,
      <<":", "-", "1">>,
      <<":", "+", "2", "2">>,
      <<":", " ", "2", "2">>,
      <<":", "2", ":", "3">> }

HostPorts == {Foo \o suffix : suffix \in PortSuffixes} \cup {SocketPath}
Endpoints ==
    {scheme \o <<":", "/", "/">> \o hostport \o rest :
        scheme \in Schemes, hostport \in HostPorts, rest \in {<<>>, <<"/", "v", "1">>}}

NoArg == [fn |-> "none", text |-> <<>>, default_port |-> NoDefault]
SplitHostportArgs ==
    {[fn |-> "_split_hostport", text |-> hostport, default_port |-> d] :
        hostport \in HostPorts, d \in {NoDefault, DefaultPort(916), DefaultPort(SshPort)}}
EndpointToTargetArgs ==
    {[fn |-> "_endpoint_to_target", text |-> endpoint, default_port |-> NoDefault] :
        endpoint \in Endpoints}

CallSplitHostport ==
    /\ arg.fn = "_split_hostport"
    /\ target = NoTarget
    /\ target' = SplitHostport(arg.text, arg.default_port)
    /\ UNCHANGED <<arg, ctor, client, tunnel, inflight, unix, over, api, dispatch, server, listed>>

CallEndpointToTarget ==
    /\ arg.fn = "_endpoint_to_target"
    /\ target = NoTarget
    /\ target' = EndpointToTarget(arg.text)
    /\ UNCHANGED <<arg, ctor, client, tunnel, inflight, unix, over, api, dispatch, server, listed>>

\* ------------------------------------------------ Client.__init__, SSHTunnel

\* endpoint.strip('/')
RECURSIVE StripSlashes(_)
StripSlashes(s) ==
    IF s # <<>> /\ Head(s) = "/" THEN StripSlashes(Tail(s))
    ELSE IF s # <<>> /\ s[Len(s)] = "/" THEN StripSlashes(SubSeq(s, 1, Len(s) - 1))
    ELSE s

\* ssh_tunnel: None, or a '<host>[:<port>]' text
NoSshTunnel == [given |-> FALSE, text |-> <<>>]
SshTunnelAt(hostport) == [given |-> TRUE, text |-> hostport]

\* What a caller passes to Client(): the endpoint in one of the supported
\* schemes (http, http+unix), http (None or a transport of the caller's),
\* ssh_tunnel, and ssh_raw_transport (None, a paramiko Transport, or something
\* else such as True). The last endpoint names a unix scheme and no path.
ClientEndpoints ==
    { Http \o <<":", "/", "/">> \o Foo \o <<":", "9", "9", "9">>,
      Http \o <<":", "/", "/">> \o Foo \o <<"/">>,
      Http \o <<":", "/", "/">> \o Foo \o <<":", "b", "a", "r">>,
      HttpUnix \o <<":", "/", "/">> \o SocketPath,
      HttpUnix \o <<":", "/", "/">> }
SshTunnels ==
    {NoSshTunnel, SshTunnelAt(Foo), SshTunnelAt(Foo \o <<":", "2", "2">>),
     SshTunnelAt(Foo \o <<":", "b", "a", "r">>)}
RawTransports == {NoneV, "Transport", "True"}

\* What the network answers while the client is built: the SSH connection
\* (IOError: the known hosts file cannot be read), and the discovery request
SshOutcomes == {"ok", "IOError", "socket.gaierror", "socket.error", "SSHException"}
DiscoveryOutcomes == {"ok", "socket.error", "UnknownApiNameOrVersion"}

Ctors ==
    [endpoint : ClientEndpoints, http : {NoneV, "http"}, ssh_tunnel : SshTunnels,
     ssh_raw_transport : RawTransports, ssh : SshOutcomes, discovery : DiscoveryOutcomes]
NoCtor ==
    [endpoint |-> <<>>, http |-> NoneV, ssh_tunnel |-> NoSshTunnel,
     ssh_raw_transport |-> NoneV, ssh |-> "ok", discovery |-> "ok"]

\* The SSH session as the other side sees it
NoTunnel == [calls |-> <<>>, channels |-> <<>>]
ForwardCall(fn, host, port, path, session) ==
    [fn |-> fn, host |-> host, port |-> port, path |-> path, session |-> session]
Channel(host, port, session) == [host |-> host, port |-> port, session |-> session]

\* SSHTunnel.forward_tcp: transport.open_channel('direct-tcpip', (host, port), ...)
\* opens a new channel on the session and returns it
ForwardTcp(tun, session, host, port) ==
    [exc |-> NoneV,
     sock |-> Len(tun.channels) + 1,
     tunnel |-> [calls |-> Append(tun.calls, ForwardCall("forward_tcp", host, port, <<>>, session)),
                 channels |-> Append(tun.channels, Channel(host, port, session))]]

\* SSHTunnel.forward_unix: raises RuntimeError, all the time
ForwardUnix(tun, session, path) ==
    [exc |-> "RuntimeError",
     sock |-> 0,
     tunnel |-> [calls |-> Append(tun.calls, ForwardCall("forward_unix", <<>>, 0, path, session)),
                 channels |-> tun.channels]]

\* if target_path: forward_unix(path=target_path) else: forward_tcp(target_host,
\* port=target_port); an empty path is not a path to this test
Forward(tun, session, t) ==
    IF t.hasPath /\ t.path # <<>> THEN ForwardUnix(tun, session, t.path)
    ELSE ForwardTcp(tun, session, t.host, t.port)

\* Client._get_proxy_info, run in one piece
GetProxyInfo(endpoint, session, tun) ==
    LET t == EndpointToTarget(endpoint)
    IN  IF t.exc # NoneV THEN [exc |-> t.exc, sock |-> 0, tunnel |-> tun]
        ELSE Forward(tun, session, t)

\* The two checks that open Client.__init__: the message of the ValueError, or
\* None; one variant lacks the second check, the other refuses a caller who
\* gives neither a tunnel nor a transport
CheckOptionsHttpOnly(a) ==
    IF (a.ssh_tunnel.given \/ a.ssh_raw_transport # NoneV) /\ a.http # NoneV
    THEN "You cannot specify your own http client, and request ssh tunneling."
    ELSE NoneV
CheckOptionsOneRequired(a) ==
    IF (a.ssh_tunnel.given \/ a.ssh_raw_transport # NoneV) /\ a.http # NoneV
    THEN "You cannot specify your own http client, and request ssh tunneling."
    ELSE IF a.ssh_tunnel.given /\ a.ssh_raw_transport # NoneV
    THEN "If ssh_tunnel is specified, ssh_raw_transport must be None"
    ELSE IF ~a.ssh_tunnel.given /\ a.ssh_raw_transport = NoneV /\ a.http = NoneV
    THEN "One of http, ssh_tunnel, ssh_raw_transport is required"
    ELSE NoneV
CheckOptions(a) ==
    IF (a.ssh_tunnel.given \/ a.ssh_raw_transport # NoneV) /\ a.http # NoneV
    THEN "You cannot specify your own http client, and request ssh tunneling."
    ELSE IF a.ssh_tunnel.given /\ a.ssh_raw_transport # NoneV
    THEN "If ssh_tunnel is specified, ssh_raw_transport must be None"
    ELSE NoneV

Session(exc, message, connects, session) ==
    [exc |-> exc, message |-> message, connects |-> connects, session |-> session]

\* SSHTunnel.__init__ with a host name: the host keys are loaded, then
\* paramiko connects; what goes wrong is raised as it is
SshTunnelInit(ssh) ==
    IF ssh = "IOError"
    THEN Session("ValueError", "Strict Host Key Checking is enabled, but hosts file", 0, NoneV)
    ELSE IF ssh = "ok" THEN Session(NoneV, "", 1, "connected")
    ELSE Session(ssh, "", 1, NoneV)

\* The except clauses around SSHTunnel(...): each cause becomes a ValueError
\* with its own message; the variant has no clause for socket.error
SshFailureUncaught(r) ==
    IF r.exc = "socket.gaierror"
    THEN Session("ValueError", "could not be resolved.", r.connects, NoneV)
    ELSE IF r.exc = "SSHException"
    THEN Session("ValueError", "Unable to connect via ssh", r.connects, NoneV)
    ELSE r
SshFailure(r) ==
    IF r.exc = "socket.gaierror"
    THEN Session("ValueError", "could not be resolved.", r.connects, NoneV)
    ELSE IF r.exc = "socket.error"
    THEN Session("ValueError", "Unable to connect to", r.connects, NoneV)
    ELSE IF r.exc = "SSHException"
    THEN Session("ValueError", "Unable to connect via ssh", r.connects, NoneV)
    ELSE r

\* The part of Client.__init__ that sets self._ssh_tunnel
OpenSession(a) ==
    IF a.ssh_raw_transport # NoneV
    THEN IF a.ssh_raw_transport # "Transport"
         THEN Session("ValueError", "ssh_raw_transport must be an active instance", 0, NoneV)
         ELSE Session(NoneV, "", 0, "raw")
    ELSE IF a.ssh_tunnel.given
    THEN IF SplitHostport(a.ssh_tunnel.text, DefaultPort(SshPort)).exc # NoneV
         THEN Session("ValueError", "is not a valid TCP port", 0, NoneV)
         ELSE SshFailure(SshTunnelInit(a.ssh))
    ELSE Session(NoneV, "", 0, NoneV)

Built(exc, message, connects, discoveries, endpoint, http, session, tun) ==
    [exc |-> exc, message |-> message, connects |-> connects, discoveries |-> discoveries,
     endpoint |-> endpoint, http |-> http, session |-> session, tunnel |-> tun]

\* The end of Client.__init__: build() fetches the discovery document through
\* self._http, which for a tunnelled client asks _get_proxy_info for a channel
Discover(a, connects, endpoint, http, session) ==
    LET proxy == IF session # NoneV THEN GetProxyInfo(endpoint, session, NoTunnel)
                 ELSE [exc |-> NoneV, sock |-> 0, tunnel |-> NoTunnel]
    IN  IF proxy.exc # NoneV
        THEN Built(proxy.exc, "", connects, 0, endpoint, http, session, proxy.tunnel)
        ELSE IF a.discovery = "socket.error"
        THEN Built("ValueError", "Unable to connect to endpoint", connects, 1,
                   endpoint, http, session, proxy.tunnel)
        ELSE IF a.discovery = "UnknownApiNameOrVersion"
        THEN Built("ValueError", "it is not a fleet v1 API endpoint", connects, 1,
                   endpoint, http, session, proxy.tunnel)
        ELSE Built(NoneV, "", connects, 1, endpoint, http, session, proxy.tunnel)

\* Client.__init__
ClientInit(a) ==
    LET endpoint == StripSlashes(a.endpoint)
        refused == CheckOptions(a)
        opened == OpenSession(a)
    IN  IF refused # NoneV
        THEN Built("ValueError", refused, 0, 0, endpoint, NoneV, NoneV, NoTunnel)
        ELSE IF opened.exc # NoneV
        THEN Built(opened.exc, opened.message, opened.connects, 0, endpoint, NoneV, NoneV,
                   NoTunnel)
        ELSE IF opened.session # NoneV
        THEN Discover(a, opened.connects, Ssh \o endpoint, "tunnelled", opened.session)
        ELSE Discover(a, opened.connects, endpoint, a.http, NoneV)

NoClient ==
    [exc |-> "not constructed", message |-> "", connects |-> 0, discoveries |-> 0,
     endpoint |-> <<>>, http |-> NoneV, session |-> NoneV]

\* A request in flight: where its thread stands in _get_proxy_info, the
\* target and the socket it holds in local variables, and the socket of the
\* SSHTunnelProxyInfo it got back
IdleRequest == [pc |-> "idle", exc |-> NoneV, target |-> NoTarget, sock |-> 0, channel |-> 0]
NoRequests == [r \in 1..MaxRequests |-> IdleRequest]

\* What the caller holds after Client(...): the client or the exception
ClientOf(c) ==
    [exc |-> c.exc, message |-> c.message, connects |-> c.connects,
     discoveries |-> c.discoveries, endpoint |-> c.endpoint,
     http |-> c.http, session |-> c.session]

\* Client(...)
Construct ==
    /\ client = NoClient
    /\ \E c \in {ClientInit(ctor)} :
          /\ client' = ClientOf(c)
          /\ tunnel' = c.tunnel
    /\ UNCHANGED <<arg, target, ctor, inflight, unix, over, api, dispatch, server, listed>>

\* A thread makes a request through a tunnelled client: _get_proxy_info is
\* entered and the endpoint parsed
EnterGetProxyInfo(r) ==
    /\ client.exc = NoneV
    /\ client.session # NoneV
    /\ inflight[r].pc = "idle"
    /\ LET t == EndpointToTarget(client.endpoint)
       IN  inflight' = [inflight EXCEPT ![r].target = t,
                                        ![r].exc = t.exc,
                                        ![r].pc = IF t.exc # NoneV THEN "failed" ELSE "parsed"]
    /\ UNCHANGED <<arg, target, ctor, client, tunnel, unix, over, api, dispatch, server, listed>>

\* The socket that goes into SSHTunnelProxyInfo(sock=sock); the variant takes
\* the channel the session opened last
LatestChannel(sock, tun) == Len(tun.channels)
ProxySock(sock, tun) == sock

\* sock = self._ssh_tunnel.forward_unix(...) or .forward_tcp(...)
CallForward(r) ==
    /\ inflight[r].pc = "parsed"
    /\ LET f == Forward(tunnel, client.session, inflight[r].target)
       IN  /\ tunnel' = f.tunnel
           /\ inflight' = [inflight EXCEPT ![r].sock = f.sock,
                                            ![r].exc = f.exc,
                                            ![r].pc = IF f.exc # NoneV THEN "failed"
                                                      ELSE "forwarded"]
    /\ UNCHANGED <<arg, target, ctor, client, unix, over, api, dispatch, server, listed>>

\* return SSHTunnelProxyInfo(sock=sock)
ReturnProxyInfo(r) ==
    /\ inflight[r].pc = "forwarded"
    /\ inflight' = [inflight EXCEPT ![r].channel = ProxySock(inflight[r].sock, tunnel),
                                    ![r].pc = "connected"]
    /\ UNCHANGED <<arg, target, ctor, client, tunnel, unix, over, api, dispatch, server, listed>>

\* ------------------------------ UnixConnectionWithTimeout, HTTPOverSSHTunnel

\* A UnixConnectionWithTimeout: host and timeout as given to __init__, sock
\* (0 for None, else the number of a socket), and around it the sockets that
\* are open, how many were created, and what each connect() did
UnixConnection(host, hasTimeout) ==
    [host |-> host, hasTimeout |-> hasTimeout, sock |-> 0, open |-> {}, made |-> 0,
     timed |-> {}, exc |-> NoneV, connected |-> <<>>, log |-> <<>>]
NoUnix == UnixConnection(<<>>, FALSE)

\* What the operating system answers to one connect(): socket.socket() fails,
\* or sock.connect(path) fails (socket.timeout is a socket.error), or all is well
ConnectOutcomes == {"connected", "socket() failed", "connect() failed", "connect() timed out"}

\* The except branch of connect(): the variant forgets to close
ConnectFailedLeaky(u, outcome) ==
    [u EXCEPT !.sock = 0, !.exc = "socket.error", !.log = Append(u.log, outcome)]
ConnectFailed(u, outcome) ==
    [u EXCEPT !.open = IF u.sock # 0 THEN u.open \ {u.sock} ELSE u.open,
              !.sock = 0,
              !.exc = "socket.error",
              !.log = Append(u.log, outcome)]

\* UnixConnectionWithTimeout.connect
UnixConnect(u, outcome) ==
    IF outcome = "socket() failed" THEN ConnectFailed(u, outcome)
    ELSE LET new == u.made + 1
             made == [u EXCEPT !.sock = new, !.made = new, !.open = u.open \cup {new},
                               !.timed = IF u.hasTimeout THEN u.timed \cup {new} ELSE u.timed]
         IN  IF outcome = "connected"
             THEN [made EXCEPT !.exc = NoneV, !.connected = Append(u.connected, Unquote(u.host)),
                               !.log = Append(u.log, outcome)]
             ELSE ConnectFailed(made, outcome)

\* unix.connect()
CallUnixConnect(outcome) ==
    /\ Len(unix.log) < MaxConnects
    /\ unix' = UnixConnect(unix, outcome)
    /\ UNCHANGED <<arg, target, ctor, client, tunnel, inflight, over, api, dispatch, server, listed>>

\* What a caller passes as proxy_info, or what a callable passed as
\* proxy_info returns when it is called: None, some other object ('lolz'), a
\* function, an SSHTunnelProxyInfo with its sock (0 for a sock that is None),
\* or, for a callable, an exception of its own
ProxyValue(kind, sock) == [kind |-> kind, sock |-> sock]
ChannelSock == 7
ProxyValues ==
    {ProxyValue("None", 0), ProxyValue("str", 0), ProxyValue("function", 0),
     ProxyValue("SSHTunnelProxyInfo", 0), ProxyValue("SSHTunnelProxyInfo", ChannelSock)}
ProxyInfos ==
    [callable : {FALSE}, value : ProxyValues \ {ProxyValue("function", 0)}]
        \cup [callable : {TRUE}, value : ProxyValues \cup {ProxyValue("RuntimeError", 0)}]

NoOver ==
    [proxy_info |-> [callable |-> FALSE, value |-> ProxyValue("None", 0)],
     built |-> FALSE, exc |-> NoneV, calls |-> 0, sock |-> 0, connects |-> 0, opened |-> 0]

\* not proxy_info or not isinstance(proxy_info, SSHTunnelProxyInfo) or not
\* proxy_info.sock, negated; the variant does not look at sock
IsProxyInfoObject(v) == v.kind = "SSHTunnelProxyInfo"
IsUsableProxyInfo(v) == v.kind = "SSHTunnelProxyInfo" /\ v.sock # 0

\* HTTPOverSSHTunnel.__init__
OverInit(o, p) ==
    LET calls == IF p.callable THEN 1 ELSE 0
    IN  IF p.callable /\ p.value.kind = "RuntimeError"
        THEN [o EXCEPT !.built = TRUE, !.exc = "RuntimeError", !.calls = calls]
        ELSE IF ~IsUsableProxyInfo(p.value)
        THEN [o EXCEPT !.built = TRUE, !.exc = "ValueError", !.calls = calls]
        ELSE [o EXCEPT !.built = TRUE, !.exc = NoneV, !.calls = calls, !.sock = p.value.sock]

\* HTTPOverSSHTunnel(host, proxy_info=...)
CallOverInit ==
    /\ ~over.built
    /\ over' = OverInit(over, over.proxy_info)
    /\ UNCHANGED <<arg, target, ctor, client, tunnel, inflight, unix, api, dispatch, server, listed>>

\* HTTPOverSSHTunnel.connect: pass
OverConnect(o) == [o EXCEPT !.connects = o.connects + 1]

\* h.connect()
CallOverConnect ==
    /\ over.built
    /\ over.exc = NoneV
    /\ over.connects < MaxConnects
    /\ over' = OverConnect(over)
    /\ UNCHANGED <<arg, target, ctor, client, tunnel, inflight, unix, api, dispatch, server, listed>>

InitRequest ==
    /\ script \in Scripts
    /\ sent = <<>>
    /\ overrun = FALSE
    /\ mode = "idle"
    /\ callerKw = Absent
    /\ gen = NewGen
    /\ yielded = <<>>
    /\ call = NoCall
    /\ unit = IdleUnit
    /\ before = IdleUnit
    /\ ucall = NoUnitCall
    /\ text = <<>>
    /\ stage = "none"
    /\ parsed = NoResult
    /\ output = <<>>
    /\ reparsed = NoResult
    /\ arg = NoArg
    /\ target = NoTarget
    /\ ctor = NoCtor
    /\ client = NoClient
    /\ tunnel = NoTunnel
    /\ inflight = NoRequests
    /\ unix = NoUnix
    /\ over = NoOver
    /\ api = NoApiCall
    /\ dispatch = NoDispatch
    /\ server = NoServer
    /\ listed = NoListing

NextRequest ==
    \/ \E kw \in CallerTokens : CallRequest(kw) /\ UNCHANGED <<unitVars, codecVars, netVars>>
    \/ GenNext /\ UNCHANGED <<unitVars, codecVars, netVars>>
    \/ \E kw \in CallerTokens : CallSingleRequest(kw) /\ UNCHANGED <<unitVars, codecVars, netVars>>

SpecRequest == InitRequest /\ [][NextRequest]_vars

InitUnit ==
    /\ unit \in ConstructedUnits
    /\ before = unit
    /\ ucall = NoUnitCall
    /\ script = <<>>
    /\ sent = <<>>
    /\ overrun = FALSE
    /\ mode = "idle"
    /\ callerKw = Absent
    /\ gen = NewGen
    /\ yielded = <<>>
    /\ call = NoCall
    /\ text = <<>>
    /\ stage = "none"
    /\ parsed = NoResult
    /\ output = <<>>
    /\ reparsed = NoResult
    /\ arg = NoArg
    /\ target = NoTarget
    /\ ctor = NoCtor
    /\ client = NoClient
    /\ tunnel = NoTunnel
    /\ inflight = NoRequests
    /\ unix = NoUnix
    /\ over = NoOver
    /\ api = NoApiCall
    /\ dispatch = NoDispatch
    /\ server = NoServer
    /\ listed = NoListing

NextUnit ==
    \/ \E s \in Sections, n \in Names, v \in Values :
          CallAddOption(s, n, v) /\ UNCHANGED <<reqVars, codecVars, netVars>>
    \/ \E s \in Sections, n \in Names, v \in Values \cup {NoneV} :
          CallRemoveOption(s, n, v) /\ UNCHANGED <<reqVars, codecVars, netVars>>
    \/ \E state \in States \cup {"bogus"}, outcomes \in RoundTrips(unit) :
          CallSetDesiredState(state, outcomes) /\ UNCHANGED <<reqVars, codecVars, netVars>>

SpecUnit == InitUnit /\ [][NextUnit]_vars

\* Units built locally with Unit(options=...): no name, so never live
ListedUnits ==
    {[client |-> c, hasName |-> FALSE, desiredState |-> "launched", options |-> o] :
        c \in BOOLEAN, o \in UNION {[1..n -> Options] : n \in 0..MaxListed}}

InitOptions ==
    /\ unit \in ListedUnits
    /\ before = unit
    /\ ucall = NoUnitCall
    /\ script = <<>>
    /\ sent = <<>>
    /\ overrun = FALSE
    /\ mode = "idle"
    /\ callerKw = Absent
    /\ gen = NewGen
    /\ yielded = <<>>
    /\ call = NoCall
    /\ text = <<>>
    /\ stage = "none"
    /\ parsed = NoResult
    /\ output = <<>>
    /\ reparsed = NoResult
    /\ arg = NoArg
    /\ target = NoTarget
    /\ ctor = NoCtor
    /\ client = NoClient
    /\ tunnel = NoTunnel
    /\ inflight = NoRequests
    /\ unix = NoUnix
    /\ over = NoOver
    /\ api = NoApiCall
    /\ dispatch = NoDispatch
    /\ server = NoServer
    /\ listed = NoListing

NextOptions ==
    \/ \E s \in Sections, n \in Names, v \in Values \cup {NoneV} :
          CallRemoveOption(s, n, v) /\ UNCHANGED <<reqVars, codecVars, netVars>>

SpecOptions == InitOptions /\ [][NextOptions]_vars

InitCodec ==
    /\ text \in Texts(MaxLines)
    /\ stage = "text"
    /\ parsed = NoResult
    /\ output = <<>>
    /\ reparsed = NoResult
    /\ arg = NoArg
    /\ target = NoTarget
    /\ ctor = NoCtor
    /\ client = NoClient
    /\ tunnel = NoTunnel
    /\ inflight = NoRequests
    /\ unix = NoUnix
    /\ over = NoOver
    /\ api = NoApiCall
    /\ dispatch = NoDispatch
    /\ server = NoServer
    /\ listed = NoListing
    /\ unit = IdleUnit
    /\ before = IdleUnit
    /\ ucall = NoUnitCall
    /\ script = <<>>
    /\ sent = <<>>
    /\ overrun = FALSE
    /\ mode = "idle"
    /\ callerKw = Absent
    /\ gen = NewGen
    /\ yielded = <<>>
    /\ call = NoCall

NextCodec ==
    \/ FromString /\ UNCHANGED <<reqVars, unitVars, netVars>>
    \/ \E order \in IterationOrders(SectionSet(parsed.options)) :
          ToStr(order) /\ UNCHANGED <<reqVars, unitVars, netVars>>
    \/ FromOutput /\ UNCHANGED <<reqVars, unitVars, netVars>>
    \/ \E options \in GivenOptionLists : FromOptions(options) /\ UNCHANGED <<reqVars, netVars>>
    \/ \E order \in IterationOrders(SectionSet(unit.options)) :
          StrOfUnit(order) /\ UNCHANGED <<reqVars, netVars>>

SpecCodec == InitCodec /\ [][NextCodec]_vars

InitResolver ==
    /\ arg \in SplitHostportArgs \cup EndpointToTargetArgs
    /\ target = NoTarget
    /\ ctor = NoCtor
    /\ client = NoClient
    /\ tunnel = NoTunnel
    /\ inflight = NoRequests
    /\ unix = NoUnix
    /\ over = NoOver
    /\ api = NoApiCall
    /\ dispatch = NoDispatch
    /\ server = NoServer
    /\ listed = NoListing
    /\ script = <<>>
    /\ sent = <<>>
    /\ overrun = FALSE
    /\ mode = "idle"
    /\ callerKw = Absent
    /\ gen = NewGen
    /\ yielded = <<>>
    /\ call = NoCall
    /\ unit = IdleUnit
    /\ before = IdleUnit
    /\ ucall = NoUnitCall
    /\ text = <<>>
    /\ stage = "none"
    /\ parsed = NoResult
    /\ output = <<>>
    /\ reparsed = NoResult

NextResolver ==
    \/ CallSplitHostport /\ UNCHANGED <<reqVars, unitVars, codecVars>>
    \/ CallEndpointToTarget /\ UNCHANGED <<reqVars, unitVars, codecVars>>

SpecResolver == InitResolver /\ [][NextResolver]_vars

InitClient ==
    /\ ctor \in Ctors
    /\ client = NoClient
    /\ tunnel = NoTunnel
    /\ inflight = NoRequests
    /\ unix = NoUnix
    /\ over = NoOver
    /\ api = NoApiCall
    /\ dispatch = NoDispatch
    /\ server = NoServer
    /\ listed = NoListing
    /\ arg = NoArg
    /\ target = NoTarget
    /\ script = <<>>
    /\ sent = <<>>
    /\ overrun = FALSE
    /\ mode = "idle"
    /\ callerKw = Absent
    /\ gen = NewGen
    /\ yielded = <<>>
    /\ call = NoCall
    /\ unit = IdleUnit
    /\ before = IdleUnit
    /\ ucall = NoUnitCall
    /\ text = <<>>
    /\ stage = "none"
    /\ parsed = NoResult
    /\ output = <<>>
    /\ reparsed = NoResult

NextClient ==
    \/ Construct /\ UNCHANGED <<reqVars, unitVars, codecVars>>
    \/ \E r \in 1..MaxRequests : EnterGetProxyInfo(r) /\ UNCHANGED <<reqVars, unitVars, codecVars>>
    \/ \E r \in 1..MaxRequests : CallForward(r) /\ UNCHANGED <<reqVars, unitVars, codecVars>>
    \/ \E r \in 1..MaxRequests : ReturnProxyInfo(r) /\ UNCHANGED <<reqVars, unitVars, codecVars>>

SpecClient == InitClient /\ [][NextClient]_vars

InitConnection ==
    /\ unix \in {UnixConnection(host, hasTimeout) :
                    host \in {SocketPath, <<>>}, hasTimeout \in BOOLEAN}
    /\ over \in {[NoOver EXCEPT !.proxy_info = p] : p \in ProxyInfos}
    /\ api = NoApiCall
    /\ dispatch = NoDispatch
    /\ server = NoServer
    /\ listed = NoListing
    /\ ctor = NoCtor
    /\ client = NoClient
    /\ tunnel = NoTunnel
    /\ inflight = NoRequests
    /\ arg = NoArg
    /\ target = NoTarget
    /\ script = <<>>
    /\ sent = <<>>
    /\ overrun = FALSE
    /\ mode = "idle"
    /\ callerKw = Absent
    /\ gen = NewGen
    /\ yielded = <<>>
    /\ call = NoCall
    /\ unit = IdleUnit
    /\ before = IdleUnit
    /\ ucall = NoUnitCall
    /\ text = <<>>
    /\ stage = "none"
    /\ parsed = NoResult
    /\ output = <<>>
    /\ reparsed = NoResult

NextConnection ==
    \/ \E outcome \in ConnectOutcomes :
          CallUnixConnect(outcome) /\ UNCHANGED <<reqVars, unitVars, codecVars>>
    \/ CallOverInit /\ UNCHANGED <<reqVars, unitVars, codecVars>>
    \/ CallOverConnect /\ UNCHANGED <<reqVars, unitVars, codecVars>>

InitApi ==
    /\ unit \in ApiUnits
    /\ before = unit
    /\ ucall = NoUnitCall
    /\ api = NoApiCall
    /\ dispatch = NoDispatch
    /\ server = NoServer
    /\ listed = NoListing
    /\ unix = NoUnix
    /\ over = NoOver
    /\ ctor = NoCtor
    /\ client = NoClient
    /\ tunnel = NoTunnel
    /\ inflight = NoRequests
    /\ arg = NoArg
    /\ target = NoTarget
    /\ script = <<>>
    /\ sent = <<>>
    /\ overrun = FALSE
    /\ mode = "idle"
    /\ callerKw = Absent
    /\ gen = NewGen
    /\ yielded = <<>>
    /\ call = NoCall
    /\ text = <<>>
    /\ stage = "none"
    /\ parsed = NoResult
    /\ output = <<>>
    /\ reparsed = NoResult

ApiUnchanged ==
    UNCHANGED <<reqVars, codecVars, arg, target, ctor, client, tunnel, inflight, unix, over,
                dispatch, server, listed>>

NextApi ==
    \/ \E state \in GivenStates, outcomes \in RoundTrips(unit) :
          CallSetDesiredState(state, outcomes) /\ UNCHANGED api /\ ApiUnchanged
    \/ \E outcomes \in {<<o>> : o \in DeleteOutcomes} :
          CallDestroy(outcomes) /\ UNCHANGED api /\ ApiUnchanged
    \/ \E unitArg \in {ByName(n) : n \in UnitNames} \cup {ByUnit(unit)},
          state \in GivenStates, outcomes \in SetThenGet(SetOutcomes) :
          CallClientSetUnitDesiredState(unitArg, state, outcomes) /\ ApiUnchanged
    \/ \E name \in UnitNames, outcomes \in SetThenGet(CreateOutcomes) :
          CallCreateUnit(name, outcomes) /\ ApiUnchanged

SpecApi == InitApi /\ [][NextApi]_vars

InitDispatch ==
    /\ dispatch = NoDispatch
    /\ server = NoServer
    /\ listed = NoListing
    /\ api = NoApiCall
    /\ unit = IdleUnit
    /\ before = IdleUnit
    /\ ucall = NoUnitCall
    /\ unix = NoUnix
    /\ over = NoOver
    /\ ctor = NoCtor
    /\ client = NoClient
    /\ tunnel = NoTunnel
    /\ inflight = NoRequests
    /\ arg = NoArg
    /\ target = NoTarget
    /\ script = <<>>
    /\ sent = <<>>
    /\ overrun = FALSE
    /\ mode = "idle"
    /\ callerKw = Absent
    /\ gen = NewGen
    /\ yielded = <<>>
    /\ call = NoCall
    /\ text = <<>>
    /\ stage = "none"
    /\ parsed = NoResult
    /\ output = <<>>
    /\ reparsed = NoResult

NextDispatch == \E method \in MethodPaths(MaxTokens) : CallDispatch(method)

SpecDispatch == InitDispatch /\ [][NextDispatch]_vars

InitPaging ==
    /\ server \in Servers
    /\ listed = NoListing
    /\ dispatch = NoDispatch
    /\ api = NoApiCall
    /\ unit = IdleUnit
    /\ before = IdleUnit
    /\ ucall = NoUnitCall
    /\ unix = NoUnix
    /\ over = NoOver
    /\ ctor = NoCtor
    /\ client = NoClient
    /\ tunnel = NoTunnel
    /\ inflight = NoRequests
    /\ arg = NoArg
    /\ target = NoTarget
    /\ script = <<>>
    /\ sent = <<>>
    /\ overrun = FALSE
    /\ mode = "idle"
    /\ callerKw = Absent
    /\ gen = NewGen
    /\ yielded = <<>>
    /\ call = NoCall
    /\ text = <<>>
    /\ stage = "none"
    /\ parsed = NoResult
    /\ output = <<>>
    /\ reparsed = NoResult

PagingUnchanged ==
    UNCHANGED <<unitVars, codecVars, arg, target, ctor, client, tunnel, inflight, unix, over,
                api, dispatch>>

NextPaging ==
    \/ \E kw \in CallerTokens : CallRequest(kw) /\ UNCHANGED <<server, listed>> /\ PagingUnchanged
    \/ GenNextServed /\ PagingUnchanged
    \/ CallList /\ PagingUnchanged
    \/ ListNext /\ PagingUnchanged

SpecPaging == InitPaging /\ [][NextPaging]_vars

SpecConnection == InitConnection /\ [][NextConnection]_vars

\* ------------------------------------------------------------ properties C1-C4

\* Every outcome of the script is a page, and exactly the last has no token.
ScriptIsPageChain ==
    \A i \in 1..Len(script) :
        /\ script[i] \in PageOutcomes
        /\ (script[i].body.token = Absent) <=> (i = Len(script))

\* C1: when every response but the last carries a nextPageToken and the last
\* omits it, the generator yields exactly the responses received, one per HTTP
\* request and in the server's order, never fails, never requests anything
\* after the response without a token, and ends only after that response.
C1_PaginationYieldsEveryPage ==
    (mode = "paginated" /\ ScriptIsPageChain) =>
        /\ ~overrun
        /\ gen.pc # "failed"
        /\ Len(sent) = Len(yielded)
        /\ yielded = [i \in 1..Len(sent) |-> script[i].body]
        /\ (gen.pc = "done" => Len(yielded) = Len(script))

C1_Witness ==
    /\ mode = "paginated"
    /\ ScriptIsPageChain
    /\ gen.pc = "done"
    /\ Len(yielded) = 2
    /\ yielded[1].token = "foo"
    /\ yielded[2].token = Absent

\* C2: in a paginated call the first request carries no page cursor, and a
\* nextPageToken the caller passed in the keyword arguments is in no request.
C2_CallerTokenNeverSent ==
    (mode = "paginated" /\ callerKw # Absent) =>
        \A i \in 1..Len(sent) :
            /\ sent[i].nextPageToken # callerKw
            /\ (i = 1 => sent[i].nextPageToken = Absent)

\* C3: a call answered with an HTTP status >= 400 raises APIError with the code
\* and message of the body's error envelope and the HTTP error as http_error;
\* it returns no body and raises nothing else.
C3_ErrorStatusRaisesAPIError ==
    (call.op = "_single_request" /\ call.outcome.kind = "response"
        /\ call.outcome.status >= 400) =>
        /\ call.exc = "APIError"
        /\ call.code = call.outcome.body.code
        /\ call.message = call.outcome.body.message
        /\ call.http_error = [status |-> call.outcome.status, content |-> call.outcome.body]

\* C4: every invocation of _single_request issues exactly one HTTP request; a
\* transport failure is not retried and reaches the caller as itself.
C4_SingleAttempt ==
    call.op = "_single_request" =>
        /\ call.attempts = 1
        /\ Len(sent) = call.nsent + 1
        /\ call.outcome = script[Len(sent)]
        /\ (call.outcome.kind = "transport" =>
                /\ call.exc = call.outcome.err
                /\ call.exc \notin {NoneV, "APIError"})

C4_Witness ==
    /\ call.op = "_single_request"
    /\ call.outcome = TransportFailure("socket.gaierror")
    /\ call.exc = "socket.gaierror"
    /\ Len(sent) = 2
    /\ Len(script) = 3

\* ------------------------------------------------------------ properties C5-C6

\* C5: add_option and remove_option on a live unit raise RuntimeError and leave
\* the options as they were; on a non-live unit they are accepted, add_option
\* appending exactly its one record after the records already there.
C5_LiveUnitRejectsOptionMutation ==
    ucall.op \in {"add_option", "remove_option"} =>
        IF before.hasName /\ before.client
        THEN /\ ucall.exc = "RuntimeError"
             /\ unit = before
        ELSE /\ ucall.exc = NoneV
             /\ (ucall.op = "add_option" =>
                    /\ unit.options = before.options \o
                            <<[section |-> ucall.section, name |-> ucall.name,
                               value |-> ucall.value]>>
                    /\ ucall.ret = TRUE)

C5_Witness ==
    /\ ucall.op = "add_option"
    /\ before.hasName /\ before.client
    /\ ucall.exc = "RuntimeError"
    /\ Len(unit.options) = 1

\* C6: when set_desired_state with a valid state on a live unit fails on its
\* way to the server, the unit's desiredState is what it was before the call.
C6_FailedRoundTripKeepsDesiredState ==
    (/\ ucall.op = "set_desired_state"
     /\ before.hasName /\ before.client
     /\ ucall.state \in States
     /\ ucall.exc # NoneV) => unit.desiredState = before.desiredState

\* ----------------------------------------------------------- properties C7-C10

\* The lines of the text, each stripped as the parser strips it
TextLines == LET raw == SplitLines(text) IN [i \in 1..Len(raw) |-> Strip(raw[i])]

IsContentLine(line) == line # <<>> /\ ~StartsWith(line, "#") /\ ~IsSectionHeader(line)

\* Lines with every line that ends in a backslash joined to the line after it,
\* the backslash removed; a joined line that ends in a backslash joins again.
RECURSIVE JoinContinued(_)
JoinContinued(lines) ==
    IF lines = <<>> THEN <<>>
    ELSE LET first == RStrip(Head(lines))
         IN  IF Len(lines) >= 2 /\ EndsWith(first, "\\")
             THEN JoinContinued(<<SubSeq(first, 1, Len(first) - 1) \o lines[2]>>
                                    \o SubSeq(lines, 3, Len(lines)))
             ELSE <<Head(lines)>> \o JoinContinued(Tail(lines))

\* C7: a line ending in a backslash is joined with the next line, the backslash
\* removed, before the name/value split, and joins chain: whenever the text with
\* its continued lines joined is a well-formed unit, parsing the text succeeds
\* with exactly the records of the joined lines ("[S]", "k=v\", "w\", " z" give
\* the single record S, k, "vw z").
C7_ContinuationLinesAreJoined ==
    stage # "text" =>
        LET lines == SplitLines(text)
            expected == ParseLoop(JoinContinued(lines), 0, NoSection, <<>>)
        IN  (JoinContinued(lines) # lines /\ expected.ok) => parsed = expected

Count(seq, x) == Cardinality({i \in 1..Len(seq) : seq[i] = x})
SameMultiset(a, b) ==
    /\ Len(a) = Len(b)
    /\ \A i \in 1..Len(a) : Count(a, a[i]) = Count(b, a[i])

\* C8: for every text the parser accepts, parsing str() of the parsed unit
\* succeeds and yields the same multiset of records as the first parse, in
\* whatever order the sections were written.
C8_RoundTrip ==
    stage = "reparsed" =>
        /\ reparsed.ok
        /\ SameMultiset(parsed.options, reparsed.options)

C8_Witness ==
    /\ stage = "reparsed"
    /\ Len(parsed.options) = 2
    /\ parsed.options[1].section # parsed.options[2].section
    /\ reparsed.ok
    /\ reparsed.options # parsed.options

\* A line the parser must refuse: a content line with no header above it, or a
\* content line without '='.
Offending(lines, i) ==
    /\ IsContentLine(lines[i])
    /\ \/ \A j \in 1..(i - 1) : ~IsSectionHeader(lines[j])
       \/ Positions(lines[i], "=") = {}

\* C9: a text with a content line before any section header, or with a content
\* line without '=' inside a section, is refused with ValueError, and the error
\* names the 1-based number of the first such line, counted over all lines.
C9_ErrorNamesFirstOffendingLine ==
    stage # "text" =>
        LET lines == TextLines
            offending == {i \in 1..Len(lines) : Offending(lines, i)}
        IN  offending # {} => (~parsed.ok /\ parsed.line = Min(offending))

\* C10: an accepted text yields exactly one record per content line, in file
\* order; the record of a line has the section of the nearest header above it,
\* the text before the line's first '=' as name and all text after it as value.
C10_OneRecordPerContentLine ==
    (stage # "text" /\ parsed.ok) =>
        LET lines == TextLines
            content == {i \in 1..Len(lines) : IsContentLine(lines[i])}
        IN  /\ Len(parsed.options) = Cardinality(content)
            /\ \A i \in content :
                  LET option == parsed.options[Cardinality({j \in content : j <= i})]
                      headers == {j \in 1..(i - 1) : IsSectionHeader(lines[j])}
                  IN  /\ headers # {}
                      /\ option.section = HeaderSection(lines[Max(headers)])
                      /\ Positions(option.name, "=") = {}
                      /\ option.name \o <<"=">> \o option.value = lines[i]

C10_Witness ==
    /\ stage = "parsed"
    /\ parsed.ok
    /\ Len(SplitLines(text)) = 4
    /\ Len(parsed.options) = 2
    /\ parsed.options[1] = [section |-> <<"S">>, name |-> <<"a">>, value |-> <<"b", "=", "c">>]
    /\ parsed.options[2].section = <<"T">>

\* ---------------------------------------------------------- properties C11-C12

\* A text made of one section header `[Name]` and at least one name=value
\* line, written without surrounding whitespace and without a final line break
CanonicalText ==
    LET raw == SplitLines(text)
    IN  /\ Len(raw) >= 2
        /\ ~EndsWith(text, "\n")
        /\ Len(raw[1]) >= 3
        /\ IsSectionHeader(raw[1])
        /\ \A j \in 2..(Len(raw[1]) - 1) : raw[1][j] \notin {"[", "]"}
        /\ \A i \in 2..Len(raw) :
              /\ Strip(raw[i]) = raw[i]
              /\ IsContentLine(raw[i])
              /\ Positions(raw[i], "=") # {}

\* The options of the unit that was serialized
Serialized == IF stage = "str" THEN unit.options ELSE parsed.options

\* C11: str of a unit has no final line break and no empty line; it has one
\* line per distinct section plus one per option; each distinct section has
\* exactly one `[section]` line, and the lines right after it are the
\* name=value lines of that section's options in their order in the list; and
\* the str of a unit parsed from a canonical one-section text is that text.
C11_StrGroupsOptionsBySection ==
    stage \in {"printed", "str"} =>
        LET options == Serialized
            lines == SplitLines(output)
            sections == {options[i].section : i \in 1..Len(options)}
            Of(s) == {i \in 1..Len(options) : options[i].section = s}
            Rank(s, i) == Cardinality({j \in Of(s) : j <= i})
        IN  /\ ~EndsWith(output, "\n")
            /\ Len(lines) = Cardinality(sections) + Len(options)
            /\ \A s \in sections : \E h \in 1..Len(lines) :
                  /\ lines[h] = <<"[">> \o s \o <<"]">>
                  /\ \A g \in 1..Len(lines) : lines[g] = lines[h] => g = h
                  /\ \A i \in Of(s) :
                        /\ h + Rank(s, i) <= Len(lines)
                        /\ lines[h + Rank(s, i)] =
                               options[i].name \o <<"=">> \o options[i].value
            /\ ((stage = "printed" /\ CanonicalText) => output = text)

\* Sections interleave in the list and the set iterates the later one first
C11_Witness ==
    /\ stage = "str"
    /\ Len(unit.options) = 3
    /\ unit.options[1].section = <<"S">>
    /\ unit.options[2].section = <<"T">>
    /\ unit.options[3].section = <<"S">>
    /\ unit.options[1].value # unit.options[3].value
    /\ SubSeq(output, 1, 3) = <<"[", "T", "]">>

\* A canonical text of a header and two lines came back from str unchanged
C11_RoundTripReached ==
    /\ stage = "printed"
    /\ CanonicalText
    /\ Len(parsed.options) = 2
    /\ output = text

\* The option matches the arguments of the last remove_option
Matches(option) ==
    /\ option.section = ucall.section
    /\ option.name = ucall.name
    /\ (ucall.value = NoneV \/ option.value = ucall.value)

Unmatched(option) == ~Matches(option)

\* C12: remove_option on a non-live unit raises nothing and leaves exactly the
\* options that do not match (section and name, and the value when one is
\* given), in their order; it returns True when an option was removed and
\* False, with the options as they were, when none was.
C12_RemoveOptionRemovesAllMatches ==
    (ucall.op = "remove_option" /\ ~(before.hasName /\ before.client)) =>
        /\ ucall.exc = NoneV
        /\ unit.options = SelectSeq(before.options, Unmatched)
        /\ ucall.ret = (unit.options # before.options)
        /\ unit = [before EXCEPT !.options = unit.options]

\* The middle of three options was removed by value; two different ones stayed
C12_Witness ==
    /\ ucall.op = "remove_option"
    /\ ucall.value # NoneV
    /\ ucall.ret = TRUE
    /\ Len(before.options) = 3
    /\ before.options[1] # before.options[3]
    /\ unit.options = <<before.options[1], before.options[3]>>

\* ---------------------------------------------------------- properties C13-C15

\* The port a suffix of PortSuffixes stands for, 0 for one that is no integer
\* in [1, 65535]: int() takes " 22" and "+22" for 22; "0", "65536", "99999",
\* "-1", "bar", "" and "2:3" are refused
ExpectedPort(suffix) ==
    IF suffix \in {<<":", "2", "2">>, <<":", "+", "2", "2">>, <<":", " ", "2", "2">>} THEN 22
    ELSE IF suffix = <<":", "9", "9", "9">> THEN 999
    ELSE IF suffix = <<":", "6", "5", "5", "3", "5">> THEN 65535
    ELSE 0

\* The endpoint is scheme://hostport followed by rest
EndpointIs(scheme, hostport, rest) ==
    /\ arg.fn = "_endpoint_to_target"
    /\ target # NoTarget
    /\ arg.text = scheme \o <<":", "/", "/">> \o hostport \o rest

C14_HostPortOrPath ==
    \A scheme \in Schemes, hostport \in HostPorts, rest \in {<<>>, <<"/", "v", "1">>} :
        EndpointIs(scheme, hostport, rest) =>
            IF Contains(scheme, Unix)
            THEN /\ target.exc = NoneV
                 /\ ~target.hasHost /\ ~target.hasPort /\ target.hasPath
                 /\ target.path = IF hostport = SocketPath
                                   THEN <<"/", "t", "m", "p", "/", "s">>
                                   ELSE hostport
            ELSE /\ target.exc \in {NoneV, "ValueError"}
                 /\ target.exc = NoneV =>
                        target.hasHost /\ target.hasPort /\ ~target.hasPath

C14_Witness ==
    /\ EndpointIs(HttpUnix, SocketPath, <<>>)
    /\ target = PathTarget(<<"/", "t", "m", "p", "/", "s">>)

\* C15: _split_hostport with a colon answers (text before the first colon,
\* port) when the text after it is an integer in [1, 65535] and raises
\* ValueError when it is not; without a colon it answers (text, default_port)
\* when a default was given and raises ValueError when none was.
C15_SplitHostport ==
    (arg.fn = "_split_hostport" /\ target # NoTarget) =>
        /\ \A suffix \in PortSuffixes \ {<<>>} :
              arg.text = Foo \o suffix =>
                  target = IF ExpectedPort(suffix) # 0
                           THEN Target(Foo, ExpectedPort(suffix))
                           ELSE TargetError("ValueError")
        /\ arg.text \in {Foo, SocketPath} =>
              target = IF arg.default_port.given
                       THEN Target(arg.text, arg.default_port.port)
                       ELSE TargetError("ValueError")

\* A port one beyond the range was refused
C15_Witness ==
    /\ arg.fn = "_split_hostport"
    /\ arg.text = Foo \o <<":", "6", "5", "5", "3", "6">>
    /\ arg.default_port = DefaultPort(916)
    /\ target = TargetError("ValueError")

\* -------------------------------------------------------- properties C16-C20

Constructed == client # NoClient

WantsTunnel == ctor.ssh_tunnel.given \/ ctor.ssh_raw_transport # NoneV

ConflictingOptions ==
    \/ ctor.http # NoneV /\ WantsTunnel
    \/ ctor.ssh_tunnel.given /\ ctor.ssh_raw_transport # NoneV

\* C16: Client() given an http transport together with ssh_tunnel or
\* ssh_raw_transport, or given both ssh_tunnel and ssh_raw_transport, raises
\* ValueError, and has by then attempted no SSH connection, sent no discovery
\* request and asked the session for no channel.
C16_ConflictingOptionsRefusedFirst ==
    (Constructed /\ ConflictingOptions) =>
        /\ client.exc = "ValueError"
        /\ client.connects = 0
        /\ client.discoveries = 0
        /\ tunnel = NoTunnel

C16_Witness ==
    /\ Constructed
    /\ ctor.ssh_tunnel = SshTunnelAt(Foo)
    /\ ctor.ssh_raw_transport = "Transport"
    /\ ctor.http = NoneV
    /\ ctor.ssh = "ok"
    /\ ctor.discovery = "ok"
    /\ client.exc = "ValueError"

C16_HttpWithTunnelReached ==
    /\ Constructed
    /\ ctor.ssh_tunnel = SshTunnelAt(Foo)
    /\ ctor.ssh_raw_transport = NoneV
    /\ ctor.http # NoneV
    /\ client.exc = "ValueError"

NeitherTunnelNorHttp == ~WantsTunnel /\ ctor.http = NoneV

\* C17 as stated: Client() given neither a tunnel target (ssh_tunnel or
\* ssh_raw_transport) nor an http transport fails with a configuration error.
C17_NeitherTunnelNorHttpFails ==
    (Constructed /\ NeitherTunnelNorHttp) => client.exc = "ValueError"

\* C17, amended: Client() given neither a tunnel target nor an http transport
\* is not refused: no SSH connection is attempted and no channel opened, the
\* client keeps http = None and its endpoint without the ssh+ prefix, the
\* discovery request is sent, and construction succeeds exactly when discovery
\* does. No client holds both an SSH session and a transport of the caller's.
C17_NeitherMeansDefaultTransport ==
    /\ (Constructed /\ NeitherTunnelNorHttp) =>
          /\ client.connects = 0
          /\ tunnel = NoTunnel
          /\ client.session = NoneV
          /\ client.http = NoneV
          /\ client.endpoint = StripSlashes(ctor.endpoint)
          /\ client.discoveries = 1
          /\ (client.exc = NoneV) <=> (ctor.discovery = "ok")
    /\ (Constructed /\ client.exc = NoneV) =>
          ~(client.session # NoneV /\ client.http = "http")

C17_Witness ==
    /\ Constructed
    /\ NeitherTunnelNorHttp
    /\ ctor.discovery = "ok"
    /\ client.exc = NoneV
    /\ client.discoveries = 1

\* Client(endpoint, ssh_tunnel='<host>[:<port>]') with a valid port or none
TunnelRequested ==
    /\ ~ConflictingOptions
    /\ ctor.ssh_tunnel.given
    /\ SplitHostport(ctor.ssh_tunnel.text, DefaultPort(SshPort)).exc = NoneV

\* C18: with ssh_tunnel, a DNS failure, a connection failure and an SSH
\* failure while the session is opened each end the construction in a
\* ValueError with a message of its own; no discovery request is sent, no
\* channel is opened and no client results. An unreadable known hosts file
\* ends it the same way, before any connection is attempted.
C18_SshFailuresAreValueErrors ==
    (Constructed /\ TunnelRequested /\ ctor.ssh # "ok") =>
        /\ client.exc = "ValueError"
        /\ ctor.ssh = "socket.gaierror" => client.message = "could not be resolved."
        /\ ctor.ssh = "socket.error" => client.message = "Unable to connect to"
        /\ ctor.ssh = "SSHException" => client.message = "Unable to connect via ssh"
        /\ ctor.ssh = "IOError" => client.connects = 0
        /\ ctor.ssh # "IOError" => client.connects = 1
        /\ client.discoveries = 0
        /\ client.session = NoneV
        /\ tunnel = NoTunnel
        /\ \A r \in 1..MaxRequests : ~ENABLED EnterGetProxyInfo(r)

C18_Witness ==
    /\ Constructed
    /\ ctor.ssh_tunnel = SshTunnelAt(Foo \o <<":", "2", "2">>)
    /\ ctor.ssh_raw_transport = NoneV
    /\ ctor.http = NoneV
    /\ ctor.ssh = "socket.error"
    /\ ctor.discovery = "ok"
    /\ client.exc = "ValueError"
    /\ client.message = "Unable to connect to"

C18_ResolutionFailureReached ==
    /\ Constructed
    /\ TunnelRequested
    /\ ctor.ssh = "socket.gaierror"
    /\ client.message = "could not be resolved."

C18_SshFailureReached ==
    /\ Constructed
    /\ TunnelRequested
    /\ ctor.ssh = "SSHException"
    /\ client.message = "Unable to connect via ssh"

\* The construction got its SSH session
Tunnelled ==
    /\ Constructed
    /\ ~ConflictingOptions
    /\ \/ ctor.ssh_raw_transport = "Transport"
       \/ TunnelRequested /\ ctor.ssh = "ok"

UnixEndpoint == HttpUnix \o <<":", "/", "/">> \o SocketPath
EmptyUnixEndpoint == HttpUnix \o <<":", "/", "/">>
DecodedSocketPath == <<"/", "t", "m", "p", "/", "s">>

AllForwardTcp(host, port) ==
    /\ tunnel.calls # <<>>
    /\ \A i \in 1..Len(tunnel.calls) :
          /\ tunnel.calls[i].fn = "forward_tcp"
          /\ tunnel.calls[i].host = host
          /\ tunnel.calls[i].port = port

OnlyForwardUnix(path) ==
    /\ tunnel.calls = <<ForwardCall("forward_unix", <<>>, 0, path, client.session)>>
    /\ tunnel.channels = <<>>
    /\ client.exc = "RuntimeError"
    /\ client.discoveries = 0

\* What the channel selection does for the endpoints that name a socket path
\* or a host: forward_unix with the decoded path and nothing else, or
\* forward_tcp with the host and the port (80 when the endpoint has none), at
\* construction and in every later request; forward_unix opens no channel.
ForwardingByEndpoint ==
    Tunnelled =>
        /\ ctor.endpoint = UnixEndpoint => OnlyForwardUnix(DecodedSocketPath)
        /\ ctor.endpoint = Http \o <<":", "/", "/">> \o Foo \o <<":", "9", "9", "9">> =>
              AllForwardTcp(Foo, 999)
        /\ ctor.endpoint = Http \o <<":", "/", "/">> \o Foo \o <<"/">> =>
              AllForwardTcp(Foo, HttpPort)
        /\ ctor.endpoint = Http \o <<":", "/", "/">> \o Foo \o <<":", "b", "a", "r">> =>
              /\ tunnel = NoTunnel
              /\ client.exc = "ValueError"
        /\ Len(tunnel.channels) =
              Cardinality({i \in 1..Len(tunnel.calls) : tunnel.calls[i].fn = "forward_tcp"})

\* C19: forward_unix always raises RuntimeError and opens no channel; through
\* a tunnel, the channel selection for every endpoint with unix in its scheme
\* calls forward_unix with the decoded path and never forward_tcp; for every
\* other endpoint it calls forward_tcp with the endpoint's host and port.
C19_UnixForwardingNeverFallsBack ==
    /\ ForwardingByEndpoint
    /\ (Tunnelled /\ ctor.endpoint = EmptyUnixEndpoint) => OnlyForwardUnix(<<>>)

\* The requests that have their channel open, and those that were handed it
Forwarded == {r \in 1..MaxRequests : inflight[r].pc \in {"forwarded", "connected"}}
Connected == {r \in 1..MaxRequests : inflight[r].pc = "connected"}

\* C20: on a tunnelled client, in every interleaving of its requests, each
\* request that reached its forward call accounts for exactly one channel
\* opened on the session (the discovery request of the construction opened the
\* first), no two requests are handed the same channel and none is handed the
\* channel of the discovery request, and every channel was opened on the one
\* session the client has held since its construction.
C20_OneFreshChannelPerRequest ==
    (Constructed /\ client.exc = NoneV /\ client.session # NoneV) =>
        /\ Len(tunnel.channels) = 1 + Cardinality(Forwarded)
        /\ Len(tunnel.calls) = Len(tunnel.channels)
        /\ \A r \in Forwarded : inflight[r].sock \in 2..Len(tunnel.channels)
        /\ \A r \in Connected : inflight[r].channel = inflight[r].sock
        /\ \A r1, r2 \in Connected : r1 # r2 => inflight[r1].channel # inflight[r2].channel
        /\ \A r1, r2 \in Forwarded : r1 # r2 => inflight[r1].sock # inflight[r2].sock
        /\ \A i \in 1..Len(tunnel.channels) :
              /\ tunnel.channels[i].session = client.session
              /\ tunnel.channels[i].session = tunnel.channels[1].session

C20_Witness ==
    /\ Constructed
    /\ client.session = "connected"
    /\ Connected = 1..MaxRequests
    /\ inflight[1].channel > inflight[2].channel
    /\ Len(tunnel.channels) = 1 + MaxRequests

\* -------------------------------------------------------- properties C21-C30

LastConnect == unix.log[Len(unix.log)]

\* C21: after a connect() that failed with a socket error (at socket(), at
\* sock.connect(path), or by timing out), the connection holds no socket, the
\* socket created last (for this attempt, or the one the connection still held
\* when socket() failed) is closed, and socket.error went to the caller.
C21_FailedConnectClosesSocket ==
    (unix.log # <<>> /\ LastConnect # "connected") =>
        /\ unix.sock = 0
        /\ unix.exc = "socket.error"
        /\ unix.made \notin unix.open

C21_Witness ==
    /\ unix.log = <<"socket() failed", "connect() failed">>
    /\ unix.host = SocketPath
    /\ unix.hasTimeout
    /\ unix.made = 1
    /\ unix.timed = {1}
    /\ unix.open = {}
    /\ unix.sock = 0
    /\ unix.exc = "socket.error"

\* C29: HTTPOverSSHTunnel(host, proxy_info=p) calls p exactly once when p is
\* callable and never otherwise; when the value passed or returned is an
\* SSHTunnelProxyInfo holding a socket the connection's sock is that socket,
\* and for every other value passed or returned the constructor raises
\* ValueError (an exception of the callable's own leaves the constructor as it
\* is); connect(), however often it is called, leaves sock the supplied
\* socket and opens nothing.
C29_TunnelConnectionNeverConnects ==
    over.built =>
        LET p == over.proxy_info
        IN  /\ over.calls = IF p.callable THEN 1 ELSE 0
            /\ (p.value.kind = "SSHTunnelProxyInfo" /\ p.value.sock # 0) =>
                  /\ over.exc = NoneV
                  /\ over.sock = p.value.sock
            /\ (p.value.kind \in {"None", "str", "function"}
                   \/ (p.value.kind = "SSHTunnelProxyInfo" /\ p.value.sock = 0)) =>
                  /\ over.exc = "ValueError"
                  /\ over.sock = 0
                  /\ over.connects = 0
            /\ p.value.kind = "RuntimeError" => over.exc = "RuntimeError"
            /\ over.opened = 0

C29_Witness ==
    /\ over.built
    /\ over.proxy_info.callable
    /\ over.proxy_info.value = ProxyValue("SSHTunnelProxyInfo", ChannelSock)
    /\ over.calls = 1
    /\ over.connects = MaxConnects
    /\ over.sock = ChannelSock

C29_RefusalReached ==
    /\ over.built
    /\ ~over.proxy_info.callable
    /\ over.proxy_info.value = ProxyValue("SSHTunnelProxyInfo", 0)
    /\ over.exc = "ValueError"


\* C22: an invalid desired state given to Unit.set_desired_state or to
\* Client.set_unit_desired_state raises ValueError, and Unit.destroy on a unit
\* that is not live raises RuntimeError; in each case no request has been sent
\* and the unit's data is as it was before the call.
C22_LocalPreconditionsFirst ==
    /\ (ucall.op = "set_desired_state" /\ ucall.state \notin States)
          => (ucall.exc = "ValueError" /\ ucall.requests = <<>> /\ unit = before)
    /\ (ucall.op = "destroy" /\ ~IsLive(before))
          => (ucall.exc = "RuntimeError" /\ ucall.requests = <<>> /\ unit = before)
    /\ (api.op = "set_unit_desired_state" /\ api.state \notin States)
          => (api.exc = "ValueError" /\ api.requests = <<>> /\ ~api.ret.returned)

C22_Witness ==
    /\ ucall.op = "destroy" /\ ~IsLive(before) /\ before.client /\ ucall.exc = "RuntimeError"
    /\ api.op = "set_unit_desired_state" /\ api.state \notin States /\ api.unit.isUnit
    /\ api.exc = "ValueError"

C22_InvalidStateOnUnitReached ==
    /\ ucall.op = "set_desired_state" /\ ucall.state \notin States /\ IsLive(before)
    /\ ucall.exc = "ValueError"

\* C30: create_unit and set_unit_desired_state send Units.Set and then Units.Get
\* for the same unit name, and return the Unit built from the Get response, bound
\* to the client; when the Set fails, no Get is sent and the error is the call's.
C30_SetThenGet ==
    (api.op \in {"create_unit", "set_unit_desired_state"} /\ api.requests # <<>>)
        => /\ api.requests[1] = ApiRequest("Units.Set", api.unit.name)
           /\ LET set == Execute(api.outcomes[1])
              IN  IF set.exc # NoneV
                  THEN /\ Len(api.requests) = 1
                       /\ api.exc = (IF set.exc = "HttpError" THEN "APIError" ELSE set.exc)
                       /\ ~api.ret.returned
                  ELSE /\ api.requests = <<ApiRequest("Units.Set", api.unit.name),
                                           ApiRequest("Units.Get", api.unit.name)>>
                       /\ LET get == Execute(api.outcomes[2])
                          IN  IF get.exc # NoneV THEN ~api.ret.returned /\ api.exc # NoneV
                              ELSE /\ api.exc = NoneV
                                   /\ api.ret = ReturnedUnit(api.unit.name,
                                                             get.content.desiredState)

C30_Witness ==
    /\ api.op = "create_unit" /\ api.exc = NoneV /\ api.ret.returned /\ api.ret.client
    /\ api.ret.desiredState # api.state
    /\ Len(api.requests) = 2

C30_SetFailureReached ==
    /\ api.op = "set_unit_desired_state" /\ api.exc = "APIError" /\ Len(api.requests) = 1

\* C26: for every dotted method path, every token before the last is called
\* with no arguments and only the last token is called with the caller's
\* arguments, once.
C26_OnlyLastTokenGetsArguments ==
    dispatch.called =>
        \A i \in 1..Len(dispatch.trace) :
            dispatch.trace[i].withArgs <=> (i = Len(dispatch.trace))

\* The paths the client itself uses are dispatched as described.
C26_ApiPathsDispatchAsDescribed ==
    (dispatch.called /\ dispatch.method \in ApiPaths) => C26_OnlyLastTokenGetsArguments

C26_EarlierTokenGotArguments ==
    /\ dispatch.called
    /\ dispatch.method = JoinDots(<<Chars("State"), Chars("UnitState")>>)
    /\ dispatch.trace[1].withArgs

\* C28: the desiredState of a unit constructed locally and then changed by any
\* sequence of add_option, remove_option and set_desired_state is always one of
\* inactive, loaded, launched.
C28_DesiredStateAlwaysValid == unit.desiredState \in States

\* The three methods never turn a valid desiredState into an invalid one.
C28_MethodsKeepValidState ==
    (ucall.op # "none" /\ before.desiredState \in States) => unit.desiredState \in States

C28_InvalidStateKept ==
    /\ ucall.op = "add_option" /\ ucall.exc = NoneV
    /\ unit.desiredState \notin States
    /\ Len(unit.options) = 2

\* The text between the brackets of a header line
BetweenBrackets(line) == SubSeq(line, 2, Len(line) - 1)

\* C27: every `[Section]` line opens the section named by the text between its
\* brackets, whatever that text is: a name=value line below a header is never
\* the line the parser refuses, and in an accepted text it is recorded with the
\* text between the brackets of the nearest header above it.
C27_EveryHeaderOpensItsSection ==
    stage # "text" =>
        LET lines == TextLines
            content == {i \in 1..Len(lines) : IsContentLine(lines[i])}
        IN  \A i \in content :
                LET headers == {j \in 1..(i - 1) : IsSectionHeader(lines[j])}
                IN  (headers # {} /\ Positions(lines[i], "=") # {}) =>
                        /\ ~parsed.ok => parsed.line # i
                        /\ parsed.ok =>
                              parsed.options[Cardinality({j \in content : j <= i})].section
                                  = BetweenBrackets(lines[Max(headers)])

\* Headers with some text between the brackets do open their section.
C27_NamedHeadersOpenTheirSection ==
    (stage # "text"
        /\ \A i \in 1..Len(TextLines) :
              IsSectionHeader(TextLines[i]) => BetweenBrackets(TextLines[i]) # <<>>)
        => C27_EveryHeaderOpensItsSection

C27_EmptyHeaderOpensNoSection ==
    /\ stage = "parsed"
    /\ Len(TextLines) = 2
    /\ TextLines[1] = <<"[", "]">>
    /\ Positions(TextLines[2], "=") # {}
    /\ ~parsed.ok /\ parsed.error = "outside of a section" /\ parsed.line = 2

\* C23: in a paginated call every request after the first carries as
\* nextPageToken exactly the token of the response before it, whatever token
\* the server returned, the empty string included.
C23_EachRequestCarriesPrecedingToken ==
    mode = "paginated" =>
        \A i \in 2..Len(sent) :
            /\ i - 1 <= Len(yielded)
            /\ sent[i].nextPageToken = yielded[i - 1].token

\* Tokens other than the empty string are chained as described.
C23_NonEmptyTokensAreChained ==
    (mode = "paginated" /\ \A i \in 1..Len(yielded) : yielded[i].token # "")
        => C23_EachRequestCarriesPrecedingToken

C23_EmptyTokenNotSent ==
    /\ mode = "paginated"
    /\ Len(sent) = 3
    /\ yielded[1].token = "foo"
    /\ yielded[2].token = ""
    /\ sent[3].nextPageToken = "foo"

\* Whether the page chain of a server ends: following the tokens from the page
\* at `cursor` reaches a page without a token within `most` pages; its length.
RECURSIVE ChainEnds(_, _, _)
ChainEnds(srv, cursor, most) ==
    /\ most > 0
    /\ (srv[cursor] = Absent \/ ChainEnds(srv, srv[cursor], most - 1))
RECURSIVE ChainLength(_, _)
ChainLength(srv, cursor) ==
    IF srv[cursor] = Absent THEN 1 ELSE 1 + ChainLength(srv, srv[cursor])

\* C24: against a server whose page chain is finite, a paginated call sends at
\* most as many requests as the chain has pages, and never asks again for a
\* page (a cursor) it has already received.
C24_TerminatesWithoutRepeats ==
    (mode = "paginated" /\ ChainEnds(server, Absent, Cardinality(Cursors))) =>
        /\ Len(sent) <= ChainLength(server, Absent)
        /\ \A i, j \in 1..Len(sent) :
              i < j => sent[i].nextPageToken # sent[j].nextPageToken

\* When no page of the chain carries an empty-string token and the caller
\* passes no token, the call does end without repeats.
C24_TerminatesWithoutEmptyTokens ==
    (callerKw = Absent /\ \A i \in 1..Len(yielded) : yielded[i].token # "")
        => C24_TerminatesWithoutRepeats

C24_SamePageRequestedAgain ==
    /\ mode = "paginated"
    /\ callerKw = Absent
    /\ server[Absent] = "" /\ server[""] = Absent
    /\ Len(sent) = 3
    /\ \A i \in 1..3 : sent[i].nextPageToken = Absent
    /\ gen.pc = "suspended" /\ gen.next_page_token = "" /\ gen.kwargs = Absent

\* The items of the first n pages requested, in page order and in-page order
RECURSIVE ItemsOfPages(_)
ItemsOfPages(n) ==
    IF n <= 0 THEN <<>> ELSE ItemsOfPages(n - 1) \o ServerItems(sent[n].nextPageToken)

\* C25: no request is sent before the consumer asks for the first page; a
\* consumer that has taken k pages has caused exactly k requests; the list_*
\* generators yield the items of the pages in page order and in-page order, and
\* ask for a page only when the items of the pages before it are used up.
C25_LazyAndInOrder ==
    /\ mode = "paginated" =>
          /\ gen.pc = "created" => sent = <<>>
          /\ Len(sent) = Len(yielded)
    /\ mode = "listing" =>
          /\ listed.pc = "created" => sent = <<>>
          /\ Len(sent) = Len(yielded)
          /\ listed.items \o listed.pending = ItemsOfPages(Len(sent))
          /\ listed.pc = "suspended" =>
                Len(ItemsOfPages(Len(sent) - 1)) < Len(listed.items)

C25_Witness ==
    /\ mode = "listing"
    /\ listed.pc = "suspended"
    /\ Len(sent) = 3
    /\ listed.items = <<"unit-1", "unit-2", "unit-4">>
    /\ listed.pending = <<"unit-5">>
    /\ server["bar"] # Absent

C25_PagesTakenOneByOne ==
    /\ mode = "paginated"
    /\ gen.pc = "suspended"
    /\ Len(yielded) = 2 /\ Len(sent) = 2
    /\ gen.next_page_token = "bar"

====
